---- MODULE Spec2Model ----
(***************************************************************************)
(* Model of the semantic memory store (src/agents/semantic-tensor-memory.js)*)
(* and of the analysis life cycle of the background service worker that     *)
(* feeds it (src/unnamed/part_000).                                         *)
(*                                                                          *)
(* JavaScript Maps and Sets keep insertion order and the code depends on    *)
(* it (slice(0, n) of a Set, stable sorts of Map entries), so a Map is a    *)
(* sequence of [k, v] records and a Set is a duplicate-free sequence.       *)
(* Timestamps are counted in hours: every Date getter the store uses        *)
(* (getHours, getDate, getMonth, getFullYear, the week number) discards     *)
(* everything finer.  The calendar has 30-day months.                       *)
(* null is modelled by the empty sequence Null.                             *)
(***************************************************************************)
EXTENDS Integers, Sequences, FiniteSets, TLC

VARIABLES
    store,        \* the SemanticTensorMemory instance: its maps and indices
    maxMemories,  \* its maxMemories, fixed by the constructor
    nextId,       \* ids are unique; the n-th stored record has id n
    queue,        \* microtask queue: the suspended storeMemory calls, in resumption order
    lastCall,     \* the operation the last step completed: its argument and what it returned
    isActive,     \* background: the isActive flag
    activeAnalysis, \* background: the keys of the activeAnalysis map, in insertion order
    analyses,     \* background: the analysis objects and the performAnalysis call of each
    now,          \* background: the hour of new Date(), stamped on the results
    clock,        \* background: Date.now() in milliseconds, as captureScreenshot reads it
    lastCaptureTime, \* background: the lastCaptureTime field
    captureLog    \* background: the rate-limit decisions of captureScreenshot, in order

storeVars == <<store, maxMemories, nextId, queue, lastCall>>
captureVars == <<clock, lastCaptureTime, captureLog>>
bgVars == <<isActive, activeAnalysis, analyses, now, clock, lastCaptureTime, captureLog>>
vars == <<store, maxMemories, nextId, queue, lastCall, isActive, activeAnalysis, analyses, now,
          clock, lastCaptureTime, captureLog>>

----------------------------------------------------------------------------
(* Bounds of the model *)

MaxInserts == 3            \* records stored by calls that do not overlap
MaxOverlappingCalls == 2   \* records stored by calls that may overlap
MaxAnalyses == 2           \* analyses the background schedules
SignificandBits == 13      \* bits of the significand of the modelled floating-point numbers

(* Inputs *)

MaxMemoriesChoices == {1, 2}
Timestamps == {0, 1, 800}

(* readings of Date.now() in milliseconds: the second is one millisecond   *)
(* short of the capture interval after the first, the third exactly the     *)
(* interval after it                                                        *)
CaptureClock == {1000, 2999, 3000, 5000}

Null == <<>>

Urls == { [scheme |-> "https", host |-> "a.com"], [scheme |-> "", host |-> ""] }

FeatureProfiles ==
    { [contentType |-> "", pageType |-> "", designStyle |-> "", userExperience |-> ""],
      [contentType |-> "article", pageType |-> "", designStyle |-> "modern", userExperience |-> "modern"] }

(* orchestratorSynthesis.embeddings of a raw result: the unified embedding,  *)
(* or null when the embedding provider failed or was not asked              *)
RawEmbeddings == { <<2, 0>>, <<4, 2>> }

WellFormedResults ==
    { [timestamp |-> t, url |-> u, features |-> f, hasQualityMetrics |-> TRUE, embeddings |-> Null] :
        t \in Timestamps, u \in Urls, f \in FeatureProfiles }

(* results of the orchestrator that carry a unified embedding *)
EmbeddedResults ==
    { [timestamp |-> 1, url |-> [scheme |-> "https", host |-> "a.com"],
       features |-> [contentType |-> "", pageType |-> "", designStyle |-> "", userExperience |-> ""],
       hasQualityMetrics |-> TRUE, embeddings |-> e] : e \in RawEmbeddings }

MalformedResult ==
    [timestamp |-> 0, url |-> [scheme |-> "", host |-> ""],
     features |-> [contentType |-> "", pageType |-> "", designStyle |-> "", userExperience |-> ""],
     hasQualityMetrics |-> FALSE, embeddings |-> Null]

OrchestrationResults == WellFormedResults \cup EmbeddedResults \cup {MalformedResult}

----------------------------------------------------------------------------
(* JavaScript Map and Set *)

Range(s) == { s[i] : i \in 1..Len(s) }

MapHas(m, key) == \E i \in 1..Len(m) : m[i].k = key

MapGet(m, key) == m[CHOOSE i \in 1..Len(m) : m[i].k = key].v

MapSet(m, key, val) ==
    IF MapHas(m, key)
    THEN [i \in 1..Len(m) |-> IF m[i].k = key THEN [k |-> key, v |-> val] ELSE m[i]]
    ELSE Append(m, [k |-> key, v |-> val])

MapDelete(m, key) == SelectSeq(m, LAMBDA e : e.k # key)

MapKeys(m) == { m[i].k : i \in 1..Len(m) }

SetHas(s, x) == x \in Range(s)

SetAdd(s, x) == IF SetHas(s, x) THEN s ELSE Append(s, x)

SetDelete(s, x) == SelectSeq(s, LAMBDA e : e # x)

Slice(s, n) == SubSeq(s, 1, IF n < Len(s) THEN (IF n < 0 THEN 0 ELSE n) ELSE Len(s))

----------------------------------------------------------------------------
(* Date *)

HoursPerDay == 24
DaysPerMonth == 30
MonthsPerYear == 12
DaysPerWeek == 7
EpochYear == 1970
EpochWeekday == 4

DayNumber(t) == t \div HoursPerDay
getHours(t) == t % HoursPerDay
getDate(t) == (DayNumber(t) % DaysPerMonth) + 1
getMonth(t) == (DayNumber(t) \div DaysPerMonth) % MonthsPerYear
getFullYear(t) == EpochYear + (DayNumber(t) \div (DaysPerMonth * MonthsPerYear))
getDay(t) == (EpochWeekday + DayNumber(t)) % DaysPerWeek

(* mutant: the test of the fall months reads month < 10 *)
getSeasonShortFall(t) ==
    LET month == getMonth(t)
    IN  IF month >= 2 /\ month <= 4 THEN "spring"
        ELSE IF month >= 5 /\ month <= 7 THEN "summer"
        ELSE IF month >= 8 /\ month < 10 THEN "fall"
        ELSE "winter"

getSeason(t) ==
    LET month == getMonth(t)
    IN  IF month >= 2 /\ month <= 4 THEN "spring"
        ELSE IF month >= 5 /\ month <= 7 THEN "summer"
        ELSE IF month >= 8 /\ month <= 10 THEN "fall"
        ELSE "winter"

CeilDiv(a, b) == (a + b - 1) \div b

getWeekNumber(t) ==
    LET firstDayOfYear == (getFullYear(t) - EpochYear) * DaysPerMonth * MonthsPerYear * HoursPerDay
        pastHoursOfYear == t - firstDayOfYear
    IN  CeilDiv(pastHoursOfYear + (getDay(firstDayOfYear) + 1) * HoursPerDay,
                DaysPerWeek * HoursPerDay)

HourKey(t) == <<getFullYear(t), getMonth(t), getDate(t), getHours(t)>>
DayKey(t) == <<getFullYear(t), getMonth(t), getDate(t)>>
WeekKey(t) == <<getFullYear(t), getWeekNumber(t)>>
MonthKey(t) == <<getFullYear(t), getMonth(t)>>

Granularities == {"hour", "day", "week", "month"}

----------------------------------------------------------------------------
(* The store: constructor and initializeIndices *)

EmptyStore ==
    [memoryStore |-> <<>>,
     embeddingIndex |-> <<>>,
     embeddingBuckets |-> <<>>,
     conceptClusters |-> <<>>,
     temporalBuckets |-> [hour |-> <<>>, day |-> <<>>, week |-> <<>>, month |-> <<>>],
     semanticCategories |-> <<>>,
     domainClusters |-> <<>>,
     relationshipGraph |-> <<>>]

(* Record Builder *)

(* mutant: the catch block returns what it could read of the url *)
extractDomainUncaught(url) == url.host

extractDomain(url) == IF url.scheme = "" THEN "unknown" ELSE url.host

RECURSIVE Dedupe(_)
Dedupe(s) ==
    IF s = <<>> THEN <<>>
    ELSE LET front == Dedupe(SubSeq(s, 1, Len(s) - 1))
         IN  SetAdd(front, s[Len(s)])

extractCategories(r) ==
    LET f == r.features
        c1 == IF f.contentType # "" THEN <<f.contentType>> ELSE <<>>
        c2 == IF f.pageType # "" THEN <<f.pageType>> ELSE <<>>
        c3 == IF f.designStyle # "" THEN <<f.designStyle>> ELSE <<>>
        c4 == IF f.userExperience # "" THEN <<f.userExperience>> ELSE <<>>
    IN  Dedupe(c1 \o c2 \o c3 \o c4)

(* mutant: the entry keeps the unified embedding of the orchestration result *)
createMemoryEntryKeepingEmbeddings(memoryId, r) ==
    [memoryId |-> memoryId,
     timestamp |-> r.timestamp,
     url |-> r.url,
     domain |-> extractDomain(r.url),
     categories |-> extractCategories(r),
     season |-> getSeason(r.timestamp),
     embeddingsTensor |-> [unified |-> r.embeddings, vision |-> Null]]

createMemoryEntry(memoryId, r) ==
    [memoryId |-> memoryId,
     timestamp |-> r.timestamp,
     url |-> r.url,
     domain |-> extractDomain(r.url),
     categories |-> extractCategories(r),
     season |-> getSeason(r.timestamp),
     embeddingsTensor |-> [unified |-> Null, vision |-> Null]]

(* createMemoryEntry dereferences qualityMetrics, orchestratorSynthesis and *)
(* orchestrationMetadata without a guard: a result lacking them throws.     *)
createMemoryEntryThrows(r) == ~r.hasQualityMetrics

(* Index maintenance *)

RECURSIVE SumOf(_)
SumOf(v) == IF v = <<>> THEN 0 ELSE Head(v) + SumOf(Tail(v))

calculateEmbeddingBucket(embedding) ==
    IF embedding = Null THEN "default" ELSE ToString((SumOf(embedding) * 100) % 100)

(* mutant: the entry is indexed whether or not it has a unified embedding *)
indexEmbeddingsUnguarded(S, memoryId, entry) ==
    LET emb == entry.embeddingsTensor
        S1 == [S EXCEPT !.embeddingIndex = MapSet(@, memoryId, emb)]
        bucketKey == calculateEmbeddingBucket(emb.unified)
        old == IF MapHas(S1.embeddingBuckets, bucketKey)
               THEN MapGet(S1.embeddingBuckets, bucketKey) ELSE <<>>
    IN  [S1 EXCEPT !.embeddingBuckets = MapSet(@, bucketKey, SetAdd(old, memoryId))]

indexEmbeddings(S, memoryId, entry) ==
    LET emb == entry.embeddingsTensor
        S1 == IF emb.unified # Null
              THEN [S EXCEPT !.embeddingIndex = MapSet(@, memoryId, emb)]
              ELSE S
        bucketKey == calculateEmbeddingBucket(emb.unified)
        old == IF MapHas(S1.embeddingBuckets, bucketKey)
               THEN MapGet(S1.embeddingBuckets, bucketKey) ELSE <<>>
    IN  [S1 EXCEPT !.embeddingBuckets = MapSet(@, bucketKey, SetAdd(old, memoryId))]

addToTemporalBucket(buckets, key, memoryId) ==
    LET old == IF MapHas(buckets, key) THEN MapGet(buckets, key) ELSE <<>>
    IN  MapSet(buckets, key, SetAdd(old, memoryId))

(* mutant: the week bucket is forgotten *)
updateTemporalIndicesNoWeek(S, memoryId, entry) ==
    LET t == entry.timestamp
    IN  [S EXCEPT !.temporalBuckets =
            [hour |-> addToTemporalBucket(@.hour, HourKey(t), memoryId),
             day |-> addToTemporalBucket(@.day, DayKey(t), memoryId),
             week |-> @.week,
             month |-> addToTemporalBucket(@.month, MonthKey(t), memoryId)]]

updateTemporalIndices(S, memoryId, entry) ==
    LET t == entry.timestamp
    IN  [S EXCEPT !.temporalBuckets =
            [hour |-> addToTemporalBucket(@.hour, HourKey(t), memoryId),
             day |-> addToTemporalBucket(@.day, DayKey(t), memoryId),
             week |-> addToTemporalBucket(@.week, WeekKey(t), memoryId),
             month |-> addToTemporalBucket(@.month, MonthKey(t), memoryId)]]

RECURSIVE AddToCategories(_, _, _)
AddToCategories(cats, categories, memoryId) ==
    IF categories = <<>> THEN cats
    ELSE LET c == Head(categories)
             old == IF MapHas(cats, c) THEN MapGet(cats, c) ELSE <<>>
         IN  AddToCategories(MapSet(cats, c, SetAdd(old, memoryId)), Tail(categories), memoryId)

updateSemanticCategories(S, memoryId, entry) ==
    [S EXCEPT !.semanticCategories = AddToCategories(@, entry.categories, memoryId)]

updateDomainClusters(S, memoryId, entry) ==
    LET old == IF MapHas(S.domainClusters, entry.domain)
               THEN MapGet(S.domainClusters, entry.domain) ELSE <<>>
    IN  [S EXCEPT !.domainClusters = MapSet(@, entry.domain, SetAdd(old, memoryId))]

----------------------------------------------------------------------------
(* Cosine similarity.  Vectors are sequences of integers.  A similarity is   *)
(* reported in hundredths, rounded down; the threshold tests are exact: for  *)
(* a non-negative dot product, dot/(|a||b|) > p/100 iff                      *)
(* 10000 * dot^2 > p^2 * |a|^2 * |b|^2.                                      *)

RECURSIVE Dot(_, _)
Dot(a, b) == IF a = <<>> THEN 0 ELSE Head(a) * Head(b) + Dot(Tail(a), Tail(b))

(* Math.sqrt of the square of a similarity in hundredths: at most 100 *)
ISqrt(n) == CHOOSE r \in 0..100 : r * r <= n /\ (r + 1) * (r + 1) > n

calculateCosineSimilarity(vecA, vecB) ==
    IF vecA = Null \/ vecB = Null \/ Len(vecA) # Len(vecB) THEN 0
    ELSE LET dotProduct == Dot(vecA, vecB)
             normA == Dot(vecA, vecA)
             normB == Dot(vecB, vecB)
         IN  IF normA * normB = 0 \/ dotProduct <= 0 THEN 0
             ELSE ISqrt((dotProduct * dotProduct * 10000) \div (normA * normB))

SimilarityAbove(vecA, vecB, p) ==
    /\ vecA # Null /\ vecB # Null /\ Len(vecA) = Len(vecB)
    /\ Dot(vecA, vecB) > 0
    /\ Dot(vecA, vecB) * Dot(vecA, vecB) * 10000 > p * p * Dot(vecA, vecA) * Dot(vecB, vecB)

(* Array.prototype.sort is stable.  SortAscending sorts records with a key  *)
(* field by insertion, moving an element only in front of elements whose    *)
(* key is strictly greater.                                                 *)
RECURSIVE InsertSorted(_, _)
InsertSorted(sorted, x) ==
    IF sorted = <<>> THEN <<x>>
    ELSE IF x.key < sorted[Len(sorted)].key
         THEN Append(InsertSorted(SubSeq(sorted, 1, Len(sorted) - 1), x), sorted[Len(sorted)])
         ELSE Append(sorted, x)

RECURSIVE SortAscending(_)
SortAscending(s) ==
    IF s = <<>> THEN <<>>
    ELSE InsertSorted(SortAscending(SubSeq(s, 1, Len(s) - 1)), s[Len(s)])

----------------------------------------------------------------------------
(* Relationship discovery *)

DomainStrength == 70
TemporalStrength == 50
SemanticThreshold == 70
VisualThreshold == 80
ClusterThreshold == 85
MaxDomainRelated == 5
MaxSemanticRelated == 5
MaxTemporalRelated == 3
MaxVisualRelated == 3

Edge(type, targetId, strength) == [type |-> type, targetId |-> targetId, strength |-> strength]

MapEdges(ids, type, strength) == [i \in 1..Len(ids) |-> Edge(type, ids[i], strength)]

(* mutant: the filter on excludeId is missing *)
findDomainRelatedMemoriesWithSelf(S, domain, excludeId) ==
    LET domainMemories == IF MapHas(S.domainClusters, domain)
                          THEN MapGet(S.domainClusters, domain) ELSE <<>>
    IN  Slice(domainMemories, MaxDomainRelated)

findDomainRelatedMemories(S, domain, excludeId) ==
    LET domainMemories == IF MapHas(S.domainClusters, domain)
                          THEN MapGet(S.domainClusters, domain) ELSE <<>>
    IN  Slice(SelectSeq(domainMemories, LAMBDA id : id # excludeId), MaxDomainRelated)

SortByStrengthDescending(edges) ==
    LET keyed == [i \in 1..Len(edges) |-> [key |-> 0 - edges[i].strength, item |-> edges[i]]]
        sorted == SortAscending(keyed)
    IN  [i \in 1..Len(sorted) |-> sorted[i].item]

(* mutant: slice(0, 5) before the sort *)
findSemanticallySimilarMemoriesFirstFound(S, entry, excludeId) ==
    LET target == entry.embeddingsTensor.unified
        hits == SelectSeq(S.embeddingIndex,
                    LAMBDA e : /\ e.k # excludeId
                               /\ e.v.unified # Null
                               /\ SimilarityAbove(target, e.v.unified, SemanticThreshold))
        edges == [i \in 1..Len(hits) |->
                    Edge("semantic-similar", hits[i].k,
                         calculateCosineSimilarity(target, hits[i].v.unified))]
    IN  IF target = Null THEN <<>>
        ELSE SortByStrengthDescending(Slice(edges, MaxSemanticRelated))

findSemanticallySimilarMemories(S, entry, excludeId) ==
    LET target == entry.embeddingsTensor.unified
        hits == SelectSeq(S.embeddingIndex,
                    LAMBDA e : /\ e.k # excludeId
                               /\ e.v.unified # Null
                               /\ SimilarityAbove(target, e.v.unified, SemanticThreshold))
        edges == [i \in 1..Len(hits) |->
                    Edge("semantic-similar", hits[i].k,
                         calculateCosineSimilarity(target, hits[i].v.unified))]
    IN  IF target = Null THEN <<>>
        ELSE Slice(SortByStrengthDescending(edges), MaxSemanticRelated)

findTemporallyRelatedMemories(S, timestamp, excludeId) ==
    LET dayKey == DayKey(timestamp)
        sameDay == IF MapHas(S.temporalBuckets.day, dayKey)
                   THEN MapGet(S.temporalBuckets.day, dayKey) ELSE <<>>
    IN  Slice(SelectSeq(sameDay, LAMBDA id : id # excludeId), MaxTemporalRelated)

findVisuallySimilarMemories(S, entry, excludeId) ==
    LET target == entry.embeddingsTensor.vision
        hits == SelectSeq(S.embeddingIndex,
                    LAMBDA e : /\ e.k # excludeId
                               /\ e.v.vision # Null
                               /\ SimilarityAbove(target, e.v.vision, VisualThreshold))
        edges == [i \in 1..Len(hits) |->
                    Edge("visual-similar", hits[i].k,
                         calculateCosineSimilarity(target, hits[i].v.vision))]
    IN  IF target = Null THEN <<>>
        ELSE Slice(SortByStrengthDescending(edges), MaxVisualRelated)

(* discoverRelationships up to its first await: the domain edges and the    *)
(* semantic edges are computed from the indices as they are now.            *)
discoverRelationshipsBegin(S, memoryId, entry) ==
    MapEdges(findDomainRelatedMemories(S, entry.domain, memoryId), "domain-related", DomainStrength)
        \o findSemanticallySimilarMemories(S, entry, memoryId)

ReverseEdge(rel, memoryId) == Edge(rel.type \o "-reverse", memoryId, rel.strength)

RECURSIVE AddReverseEdges(_, _, _)
AddReverseEdges(graph, relationships, memoryId) ==
    IF relationships = <<>> THEN graph
    ELSE LET rel == Head(relationships)
             g1 == IF MapHas(graph, rel.targetId) THEN graph ELSE MapSet(graph, rel.targetId, <<>>)
             g2 == MapSet(g1, rel.targetId,
                          Append(MapGet(g1, rel.targetId), ReverseEdge(rel, memoryId)))
         IN  AddReverseEdges(g2, Tail(relationships), memoryId)

(* discoverRelationships after the await: the temporal edges are computed   *)
(* now, the edge list is assigned and the reverse edges pushed.  The visual *)
(* search (and its await) only runs for an entry with a vision embedding,   *)
(* which createMemoryEntry never produces.                                  *)
discoverRelationshipsEnd(S, memoryId, entry, partial) ==
    LET temporal == MapEdges(findTemporallyRelatedMemories(S, entry.timestamp, memoryId),
                             "temporal-related", TemporalStrength)
        visual == IF entry.embeddingsTensor.vision # Null
                  THEN findVisuallySimilarMemories(S, entry, memoryId) ELSE <<>>
        relationships == partial \o temporal \o visual
        assigned == MapSet(S.relationshipGraph, memoryId, relationships)
    IN  [S EXCEPT !.relationshipGraph = AddReverseEdges(assigned, relationships, memoryId)]

----------------------------------------------------------------------------
(* Concept clusters *)

RECURSIVE VectorSum(_, _)
VectorSum(vectors, dimension) ==
    IF vectors = <<>> THEN [i \in 1..dimension |-> 0]
    ELSE LET rest == VectorSum(Tail(vectors), dimension)
         IN  [i \in 1..dimension |-> rest[i] + (IF i <= Len(Head(vectors)) THEN Head(vectors)[i] ELSE 0)]

(* The mean is taken component-wise; the model's vectors are integers and   *)
(* the quotient is rounded down.                                            *)
updateClusterCentroid(S, clusterId) ==
    IF ~MapHas(S.conceptClusters, clusterId) THEN S
    ELSE LET cluster == MapGet(S.conceptClusters, clusterId)
             indexed == SelectSeq(cluster.members,
                            LAMBDA id : MapHas(S.embeddingIndex, id)
                                        /\ MapGet(S.embeddingIndex, id).unified # Null)
             embeddings == [i \in 1..Len(indexed) |-> MapGet(S.embeddingIndex, indexed[i]).unified]
             dimension == Len(embeddings[1])
             total == VectorSum(embeddings, dimension)
             centroid == [i \in 1..dimension |-> total[i] \div Len(embeddings)]
         IN  IF cluster.members = <<>> \/ embeddings = <<>> THEN S
             ELSE [S EXCEPT !.conceptClusters =
                      MapSet(@, clusterId, [cluster EXCEPT !.centroid = centroid])]

findOrCreateConceptCluster(S, embedding, memoryId) ==
    LET matching == SelectSeq(S.conceptClusters,
                        LAMBDA c : SimilarityAbove(embedding, c.v.centroid, ClusterThreshold))
    IN  IF matching # <<>> THEN matching[1].k ELSE <<"cluster", memoryId>>

updateConceptClusters(S, memoryId, entry) ==
    LET embedding == entry.embeddingsTensor.unified
        clusterId == findOrCreateConceptCluster(S, embedding, memoryId)
        created == IF MapHas(S.conceptClusters, clusterId) THEN S.conceptClusters
                   ELSE MapSet(S.conceptClusters, clusterId,
                               [centroid |-> embedding, members |-> <<>>])
        cluster == MapGet(created, clusterId)
        joined == MapSet(created, clusterId, [cluster EXCEPT !.members = SetAdd(@, memoryId)])
    IN  IF embedding = Null THEN S
        ELSE updateClusterCentroid([S EXCEPT !.conceptClusters = joined], clusterId)

getMemoryClusters(S, memoryId) ==
    SelectSeq(S.conceptClusters, LAMBDA c : SetHas(c.v.members, memoryId))

----------------------------------------------------------------------------
(* Removal and eviction *)

(* mutant: splice(0, index + 1) drops the edges in front of the match too *)
SpliceThroughFirstEdgeTo(relationships, memoryId) ==
    IF \E i \in 1..Len(relationships) : relationships[i].targetId = memoryId
    THEN LET index == CHOOSE i \in 1..Len(relationships) :
                         /\ relationships[i].targetId = memoryId
                         /\ \A j \in 1..(i - 1) : relationships[j].targetId # memoryId
         IN  SubSeq(relationships, index + 1, Len(relationships))
    ELSE relationships

(* findIndex + splice(index, 1): only the first edge to memoryId is removed. *)
SpliceFirstEdgeTo(relationships, memoryId) ==
    IF \E i \in 1..Len(relationships) : relationships[i].targetId = memoryId
    THEN LET index == CHOOSE i \in 1..Len(relationships) :
                         /\ relationships[i].targetId = memoryId
                         /\ \A j \in 1..(i - 1) : relationships[j].targetId # memoryId
         IN  SubSeq(relationships, 1, index - 1) \o SubSeq(relationships, index + 1, Len(relationships))
    ELSE relationships

DeleteFromSets(m, memoryId) ==
    [i \in 1..Len(m) |-> [k |-> m[i].k, v |-> SetDelete(m[i].v, memoryId)]]

(* mutant: the domain index is not cleaned *)
removeMemoryKeepsDomain(S, memoryId) ==
    [memoryStore |-> MapDelete(S.memoryStore, memoryId),
     embeddingIndex |-> MapDelete(S.embeddingIndex, memoryId),
     embeddingBuckets |-> S.embeddingBuckets,
     relationshipGraph |->
        LET deleted == MapDelete(S.relationshipGraph, memoryId)
        IN  [i \in 1..Len(deleted) |->
                [k |-> deleted[i].k, v |-> SpliceFirstEdgeTo(deleted[i].v, memoryId)]],
     conceptClusters |->
        [i \in 1..Len(S.conceptClusters) |->
            [k |-> S.conceptClusters[i].k,
             v |-> [S.conceptClusters[i].v EXCEPT !.members = SetDelete(@, memoryId)]]],
     temporalBuckets |->
        [hour |-> DeleteFromSets(S.temporalBuckets.hour, memoryId),
         day |-> DeleteFromSets(S.temporalBuckets.day, memoryId),
         week |-> DeleteFromSets(S.temporalBuckets.week, memoryId),
         month |-> DeleteFromSets(S.temporalBuckets.month, memoryId)],
     semanticCategories |-> DeleteFromSets(S.semanticCategories, memoryId),
     domainClusters |-> S.domainClusters]

removeMemory(S, memoryId) ==
    [memoryStore |-> MapDelete(S.memoryStore, memoryId),
     embeddingIndex |-> MapDelete(S.embeddingIndex, memoryId),
     embeddingBuckets |-> S.embeddingBuckets,
     relationshipGraph |->
        LET deleted == MapDelete(S.relationshipGraph, memoryId)
        IN  [i \in 1..Len(deleted) |->
                [k |-> deleted[i].k, v |-> SpliceFirstEdgeTo(deleted[i].v, memoryId)]],
     conceptClusters |->
        [i \in 1..Len(S.conceptClusters) |->
            [k |-> S.conceptClusters[i].k,
             v |-> [S.conceptClusters[i].v EXCEPT !.members = SetDelete(@, memoryId)]]],
     temporalBuckets |->
        [hour |-> DeleteFromSets(S.temporalBuckets.hour, memoryId),
         day |-> DeleteFromSets(S.temporalBuckets.day, memoryId),
         week |-> DeleteFromSets(S.temporalBuckets.week, memoryId),
         month |-> DeleteFromSets(S.temporalBuckets.month, memoryId)],
     semanticCategories |-> DeleteFromSets(S.semanticCategories, memoryId),
     domainClusters |-> DeleteFromSets(S.domainClusters, memoryId)]

RECURSIVE RemoveAll(_, _)
RemoveAll(S, ids) ==
    IF ids = <<>> THEN S ELSE RemoveAll(removeMemory(S, Head(ids)), Tail(ids))

(* mutant: the entries are left in insertion order *)
SortByTimestampUnsorted(entries) == entries

SortByTimestamp(entries) ==
    LET keyed == [i \in 1..Len(entries) |-> [key |-> entries[i].v.timestamp, item |-> entries[i]]]
        sorted == SortAscending(keyed)
    IN  [i \in 1..Len(sorted) |-> sorted[i].item]

(* mutant: one record too few is removed *)
maintainMemoryLimitsOffByOne(S, limit) ==
    IF Len(S.memoryStore) <= limit THEN S
    ELSE LET sortedMemories == SortByTimestamp(S.memoryStore)
             toRemove == Slice(sortedMemories, Len(S.memoryStore) - limit - 1)
         IN  RemoveAll(S, [i \in 1..Len(toRemove) |-> toRemove[i].k])

maintainMemoryLimits(S, limit) ==
    IF Len(S.memoryStore) <= limit THEN S
    ELSE LET sortedMemories == SortByTimestamp(S.memoryStore)
             toRemove == Slice(sortedMemories, Len(S.memoryStore) - limit)
         IN  RemoveAll(S, [i \in 1..Len(toRemove) |-> toRemove[i].k])

----------------------------------------------------------------------------
(* Analytics *)

SortByCountDescending(counts) ==
    LET keyed == [i \in 1..Len(counts) |-> [key |-> 0 - counts[i].count, item |-> counts[i]]]
        sorted == SortAscending(keyed)
    IN  [i \in 1..Len(sorted) |-> sorted[i].item]

TopLimit == 10

getTopCategories(S) ==
    Slice(SortByCountDescending(
            [i \in 1..Len(S.semanticCategories) |->
                [name |-> S.semanticCategories[i].k, count |-> Len(S.semanticCategories[i].v)]]),
          TopLimit)

getTopDomains(S) ==
    Slice(SortByCountDescending(
            [i \in 1..Len(S.domainClusters) |->
                [name |-> S.domainClusters[i].k, count |-> Len(S.domainClusters[i].v)]]),
          TopLimit)

RECURSIVE SumLengths(_)
SumLengths(m) == IF m = <<>> THEN 0 ELSE Len(Head(m).v) + SumLengths(Tail(m))

getConceptClusterSummary(S) ==
    [i \in 1..Len(S.conceptClusters) |->
        [id |-> S.conceptClusters[i].k, memberCount |-> Len(S.conceptClusters[i].v.members)]]

generateMemoryAnalytics(S) ==
    [totalMemories |-> Len(S.memoryStore),
     totalClusters |-> Len(S.conceptClusters),
     totalRelationships |-> SumLengths(S.relationshipGraph),
     topCategories |-> getTopCategories(S),
     topDomains |-> getTopDomains(S),
     conceptClusters |-> getConceptClusterSummary(S)]

----------------------------------------------------------------------------
(* Search.  The embedding provider answers the query with an embedding, with *)
(* a non-OK response, or the fetch fails.  A filter that is not supplied is  *)
(* falsy: the empty string, or a temporal filter that is switched off.       *)

QueryEmbeddings == { <<2, 0>>, <<2, 2>> }

ProviderResponses ==
    { [kind |-> "ok", embedding |-> e] : e \in QueryEmbeddings }
        \cup { [kind |-> "not-ok", embedding |-> Null], [kind |-> "network-error", embedding |-> Null] }

DefaultLimit == 10
DefaultThreshold == 70

NoTemporalFilter == [on |-> FALSE, start |-> 0, end |-> 0]

(* options that vary limit and threshold, and options that supply filters *)
SearchOptions ==
    { [limit |-> l, threshold |-> th, includeRelationships |-> TRUE,
       temporalFilter |-> NoTemporalFilter, domainFilter |-> "", categoryFilter |-> ""] :
        l \in {1, DefaultLimit}, th \in {DefaultThreshold, 100} }
    \cup
    { [limit |-> DefaultLimit, threshold |-> DefaultThreshold, includeRelationships |-> ir,
       temporalFilter |-> tf, domainFilter |-> df, categoryFilter |-> ""] :
        ir \in BOOLEAN,
        tf \in { NoTemporalFilter, [on |-> TRUE, start |-> 1, end |-> 800] },
        df \in {"", "a.com"} }
    \cup
    { [limit |-> DefaultLimit, threshold |-> DefaultThreshold, includeRelationships |-> TRUE,
       temporalFilter |-> NoTemporalFilter, domainFilter |-> "", categoryFilter |-> "article"] }

generateQueryEmbedding(response) ==
    IF response.kind = "ok" THEN response.embedding ELSE Null

(* the entries of the embedding index that pass the threshold test *)
SimilarEntries(S, queryEmbedding, threshold) ==
    SelectSeq(S.embeddingIndex,
        LAMBDA e : /\ e.v.unified # Null
                   /\ calculateCosineSimilarity(queryEmbedding, e.v.unified) >= threshold)

(* mutant: the threshold test is strict *)
findSimilarMemoriesStrict(S, queryEmbedding, threshold) ==
    LET hits == SelectSeq(S.embeddingIndex,
                    LAMBDA e : /\ e.v.unified # Null
                               /\ calculateCosineSimilarity(queryEmbedding, e.v.unified) > threshold)
    IN  IF queryEmbedding = Null THEN <<>>
        ELSE [i \in 1..Len(hits) |->
                [memoryId |-> hits[i].k,
                 similarity |-> calculateCosineSimilarity(queryEmbedding, hits[i].v.unified),
                 relationships |-> <<>>]]

findSimilarMemories(S, queryEmbedding, threshold) ==
    LET hits == SimilarEntries(S, queryEmbedding, threshold)
    IN  IF queryEmbedding = Null THEN <<>>
        ELSE [i \in 1..Len(hits) |->
                [memoryId |-> hits[i].k,
                 similarity |-> calculateCosineSimilarity(queryEmbedding, hits[i].v.unified),
                 relationships |-> <<>>]]

(* memory.url is read of a record that memoryStore.get did not find *)
findSimilarMemoriesThrows(S, queryEmbedding, threshold) ==
    /\ queryEmbedding # Null
    /\ \E e \in Range(SimilarEntries(S, queryEmbedding, threshold)) : ~MapHas(S.memoryStore, e.k)

applyFilters(S, results, filters) ==
    LET byDomain == IF filters.domainFilter # ""
                    THEN SelectSeq(results,
                            LAMBDA r : MapGet(S.memoryStore, r.memoryId).domain = filters.domainFilter)
                    ELSE results
        byCategory == IF filters.categoryFilter # ""
                      THEN SelectSeq(byDomain,
                              LAMBDA r : SetHas(MapGet(S.memoryStore, r.memoryId).categories,
                                                filters.categoryFilter))
                      ELSE byDomain
    IN  IF filters.temporalFilter.on
        THEN SelectSeq(byCategory,
                LAMBDA r : /\ MapGet(S.memoryStore, r.memoryId).timestamp >= filters.temporalFilter.start
                           /\ MapGet(S.memoryStore, r.memoryId).timestamp <= filters.temporalFilter.end)
        ELSE byCategory

(* mutant: descending order obtained by reversing an ascending sort *)
SortBySimilarityDescendingReversed(results) ==
    LET keyed == [i \in 1..Len(results) |-> [key |-> results[i].similarity, item |-> results[i]]]
        sorted == SortAscending(keyed)
    IN  [i \in 1..Len(sorted) |-> sorted[Len(sorted) + 1 - i].item]

SortBySimilarityDescending(results) ==
    LET keyed == [i \in 1..Len(results) |-> [key |-> 0 - results[i].similarity, item |-> results[i]]]
        sorted == SortAscending(keyed)
    IN  [i \in 1..Len(sorted) |-> sorted[i].item]

(* The neighbour of an edge is memoryStore.get(rel.targetId): the record,    *)
(* written here by its id, or undefined, written 0.                          *)
ResolveEdges(S, relationships) ==
    [i \in 1..Len(relationships) |->
        [type |-> relationships[i].type,
         strength |-> relationships[i].strength,
         memory |-> IF MapHas(S.memoryStore, relationships[i].targetId)
                    THEN relationships[i].targetId ELSE 0]]

(* mutant: unresolved neighbours are kept *)
enhanceWithRelationshipsUnfiltered(S, results) ==
    [i \in 1..Len(results) |->
        LET relationships == IF MapHas(S.relationshipGraph, results[i].memoryId)
                             THEN MapGet(S.relationshipGraph, results[i].memoryId) ELSE <<>>
        IN  [results[i] EXCEPT !.relationships = ResolveEdges(S, relationships)]]

enhanceWithRelationships(S, results) ==
    [i \in 1..Len(results) |->
        LET relationships == IF MapHas(S.relationshipGraph, results[i].memoryId)
                             THEN MapGet(S.relationshipGraph, results[i].memoryId) ELSE <<>>
        IN  [results[i] EXCEPT !.relationships =
                SelectSeq(ResolveEdges(S, relationships), LAMBDA rel : rel.memory # 0)]]

(* The result of searchMemories.  error tells whether the result has an      *)
(* error field: only the catch block sets one.                               *)
SearchResult(results, hasError, queryEmbedding) ==
    [results |-> results, totalFound |-> Len(results), error |-> hasError,
     queryEmbeddingGenerated |-> queryEmbedding # Null]

searchMemories(S, response, options) ==
    LET queryEmbedding == generateQueryEmbedding(response)
        similarities == findSimilarMemories(S, queryEmbedding, options.threshold)
        filtered == applyFilters(S, similarities, options)
        ranked == Slice(SortBySimilarityDescending(filtered), options.limit)
        enhanced == IF options.includeRelationships
                    THEN enhanceWithRelationships(S, ranked) ELSE ranked
    IN  IF findSimilarMemoriesThrows(S, queryEmbedding, options.threshold)
        THEN SearchResult(<<>>, TRUE, Null)
        ELSE SearchResult(enhanced, FALSE, queryEmbedding)

NoSearch ==
    [response |-> [kind |-> "not-ok", embedding |-> Null],
     options |-> [limit |-> DefaultLimit, threshold |-> DefaultThreshold, includeRelationships |-> TRUE,
                  temporalFilter |-> NoTemporalFilter, domainFilter |-> "", categoryFilter |-> ""],
     result |-> SearchResult(<<>>, FALSE, Null)]

----------------------------------------------------------------------------
(* storeMemory.  The function is async and awaits indexEmbeddings,           *)
(* discoverRelationships (which itself awaits the semantic search) and       *)
(* updateConceptClusters.  None of them waits for anything external: each    *)
(* await suspends the call for one microtask turn.  The synchronous          *)
(* stretches between the awaits are the segments below.                      *)

StoreSegment1(S, memoryId, r) ==
    LET entry == createMemoryEntry(memoryId, r)
    IN  indexEmbeddings([S EXCEPT !.memoryStore = MapSet(@, memoryId, entry)], memoryId, entry)

StoreSegment2(S, memoryId, entry) ==
    updateDomainClusters(
        updateSemanticCategories(
            updateTemporalIndices(S, memoryId, entry), memoryId, entry), memoryId, entry)

StoreSegment3(S, memoryId, entry, partial) == discoverRelationshipsEnd(S, memoryId, entry, partial)

StoreSegment4(S, memoryId, entry) == updateConceptClusters(S, memoryId, entry)

StoreSegment5(S, limit) == maintainMemoryLimits(S, limit)

StoreResult(S, memoryId) ==
    [memoryId |-> memoryId,
     stored |-> TRUE,
     relationships |-> IF MapHas(S.relationshipGraph, memoryId)
                       THEN Len(MapGet(S.relationshipGraph, memoryId)) ELSE 0,
     clusters |-> Len(getMemoryClusters(S, memoryId))]

StoreFailure == [memoryId |-> 0, stored |-> FALSE, relationships |-> 0, clusters |-> 0]

NoAnalytics == generateMemoryAnalytics(EmptyStore)

NoCall ==
    [op |-> "none", arg |-> MalformedResult, result |-> StoreFailure, analytics |-> NoAnalytics,
     search |-> NoSearch]

StoreCall(r, result) ==
    [op |-> "storeMemory", arg |-> r, result |-> result, analytics |-> NoAnalytics, search |-> NoSearch]

(* mutant: the record is put in the canonical table before the builder throws *)
storeMemoryCaughtAfterSet(S, memoryId, r) ==
    [S EXCEPT !.memoryStore = MapSet(@, memoryId, createMemoryEntry(memoryId, r))]

(* The store as the catch block of storeMemory finds it.  The only statement *)
(* of the try block that can throw is createMemoryEntry, which runs before   *)
(* the first write (memoryStore.set).                                        *)
storeMemoryCaught(S, memoryId, r) == S

(* A storeMemory call that nothing interleaves with *)
storeMemorySync(S, memoryId, r, limit) ==
    LET entry == createMemoryEntry(memoryId, r)
        S1 == StoreSegment1(S, memoryId, r)
        S2 == StoreSegment2(S1, memoryId, entry)
        partial == discoverRelationshipsBegin(S2, memoryId, entry)
        S3 == StoreSegment3(S2, memoryId, entry, partial)
        S4 == StoreSegment4(S3, memoryId, entry)
    IN  StoreSegment5(S4, limit)

----------------------------------------------------------------------------
(* Persistence *)

exportMemoryState(S) ==
    [memories |-> S.memoryStore,
     embeddings |-> S.embeddingIndex,
     clusters |-> S.conceptClusters,
     relationships |-> S.relationshipGraph]

RECURSIVE RebuildFrom(_, _)
RebuildFrom(S, memories) ==
    IF memories = <<>> THEN S
    ELSE RebuildFrom(StoreSegment2(S, Head(memories).k, Head(memories).v), Tail(memories))

rebuildIndices(S) ==
    RebuildFrom([S EXCEPT !.temporalBuckets = EmptyStore.temporalBuckets,
                          !.semanticCategories = <<>>,
                          !.domainClusters = <<>>],
                S.memoryStore)

importMemoryState(S, state) ==
    rebuildIndices([S EXCEPT !.memoryStore = state.memories,
                             !.embeddingIndex = state.embeddings,
                             !.conceptClusters = state.clusters,
                             !.relationshipGraph = state.relationships])

(* Blobs handed to importMemoryState.  Their ids are not ids of this store. *)
BlobEntry(id, t) ==
    createMemoryEntry(id, [timestamp |-> t, url |-> [scheme |-> "https", host |-> "a.com"],
                           features |-> [contentType |-> "article", pageType |-> "",
                                         designStyle |-> "", userExperience |-> ""],
                           hasQualityMetrics |-> TRUE, embeddings |-> Null])

ConsistentBlob ==
    [memories |-> <<[k |-> 11, v |-> BlobEntry(11, 1)]>>,
     embeddings |-> <<>>,
     clusters |-> <<>>,
     relationships |-> <<[k |-> 11, v |-> <<>>]>>]

(* a blob whose serialized indices are older than its memories: they still  *)
(* mention record 12                                                        *)
StaleBlob ==
    [memories |-> <<[k |-> 11, v |-> BlobEntry(11, 1)]>>,
     embeddings |-> <<[k |-> 12, v |-> [unified |-> <<1, 0>>, vision |-> Null]]>>,
     clusters |-> <<[k |-> <<"cluster", 12>>, v |-> [centroid |-> <<1, 0>>, members |-> <<12>>]]>>,
     relationships |-> <<[k |-> 11, v |-> <<Edge("domain-related", 12, DomainStrength)>>],
                         [k |-> 12, v |-> <<Edge("domain-related-reverse", 11, DomainStrength)>>]>>]

ImportBlobs == {ConsistentBlob, StaleBlob}

(* An entry whose embeddingsTensor carries the unified embedding, as a state *)
(* exported by a build that kept the embeddings holds it.                    *)
EmbeddedEntry(id, t, host, contentType, embedding) ==
    [createMemoryEntry(id, [timestamp |-> t, url |-> [scheme |-> "https", host |-> host],
                            features |-> [contentType |-> contentType, pageType |-> "",
                                          designStyle |-> "", userExperience |-> ""],
                            hasQualityMetrics |-> TRUE, embeddings |-> embedding])
        EXCEPT !.embeddingsTensor.unified = embedding]

(* the steps of storeMemory from memoryStore.set to updateConceptClusters,   *)
(* for a given entry                                                         *)
storeEntry(S, memoryId, entry) ==
    LET S1 == indexEmbeddings([S EXCEPT !.memoryStore = MapSet(@, memoryId, entry)], memoryId, entry)
        S2 == StoreSegment2(S1, memoryId, entry)
        partial == discoverRelationshipsBegin(S2, memoryId, entry)
        S3 == StoreSegment3(S2, memoryId, entry, partial)
    IN  StoreSegment4(S3, memoryId, entry)

(* a blob with embeddings, clusters and edges: three records, two of them    *)
(* with parallel embeddings                                                  *)
EmbeddedBlob ==
    exportMemoryState(
        storeEntry(
            storeEntry(
                storeEntry(EmptyStore, 11, EmbeddedEntry(11, 0, "a.com", "article", <<2, 0>>)),
                12, EmbeddedEntry(12, 1, "b.com", "", <<4, 0>>)),
            13, EmbeddedEntry(13, 800, "a.com", "article", <<2, 2>>)))

(* An entry whose embeddingsTensor carries both embeddings *)
TensorEntry(id, t, unified, vision) ==
    [EmbeddedEntry(id, t, "a.com", "article", unified) EXCEPT !.embeddingsTensor.vision = vision]

(* a blob of seven records of one domain and one day, each with more         *)
(* candidates than discovery keeps; the weakest semantic candidate of the    *)
(* last record was stored first, and one record has no vision embedding      *)
CrowdedBlob ==
    exportMemoryState(
        storeEntry(storeEntry(storeEntry(storeEntry(storeEntry(storeEntry(storeEntry(EmptyStore,
            21, TensorEntry(21, 0, <<1, 0>>, <<0, 1>>)),
            22, TensorEntry(22, 1, <<1, 1>>, <<1, 1>>)),
            23, TensorEntry(23, 2, <<3, 2>>, <<2, 3>>)),
            24, TensorEntry(24, 3, <<2, 1>>, <<1, 2>>)),
            25, TensorEntry(25, 4, <<3, 1>>, Null)),
            26, TensorEntry(26, 5, <<4, 1>>, <<1, 4>>)),
            27, TensorEntry(27, 6, <<2, 2>>, <<2, 2>>)))

(* mutant: analytics refreshes the derived indices before it counts *)
storeAfterAnalyticsRebuilt(S) == rebuildIndices(S)

(* The store after generateMemoryAnalytics.  The function and its helpers    *)
(* only read: the arrays they sort and slice are copies made by Array.from,  *)
(* and no field of the store is assigned.                                    *)
storeAfterAnalytics(S) == S

----------------------------------------------------------------------------
(* Actions *)

Init ==
    /\ store = EmptyStore
    /\ maxMemories \in MaxMemoriesChoices
    /\ nextId = 1
    /\ queue = <<>>
    /\ lastCall = NoCall
    /\ isActive = TRUE
    /\ activeAnalysis = <<>>
    /\ analyses = <<>>
    /\ now = 0
    /\ clock = 1000
    /\ lastCaptureTime = 0
    /\ captureLog = <<>>

(* await storeMemory(r), with no other call in flight *)
StoreMemory(r) ==
    /\ queue = <<>>
    /\ IF createMemoryEntryThrows(r)
       THEN /\ store' = storeMemoryCaught(store, nextId, r)
            /\ lastCall' = StoreCall(r, StoreFailure)
            /\ UNCHANGED nextId
       ELSE /\ nextId <= MaxInserts
            /\ store' = storeMemorySync(store, nextId, r, maxMemories)
            /\ nextId' = nextId + 1
            /\ lastCall' = StoreCall(r, StoreResult(store', nextId))
    /\ UNCHANGED <<maxMemories, queue>>
    /\ UNCHANGED bgVars

(* storeMemory(r) called without awaiting: it runs to its first await *)
StartStoreMemory(r) ==
    /\ IF createMemoryEntryThrows(r)
       THEN /\ store' = storeMemoryCaught(store, nextId, r)
            /\ lastCall' = StoreCall(r, StoreFailure)
            /\ UNCHANGED <<nextId, queue>>
       ELSE /\ nextId <= MaxOverlappingCalls
            /\ store' = StoreSegment1(store, nextId, r)
            /\ nextId' = nextId + 1
            /\ queue' = Append(queue, [memoryId |-> nextId, arg |-> r,
                                       entry |-> createMemoryEntry(nextId, r),
                                       pc |-> 2, relationships |-> <<>>])
            /\ lastCall' = NoCall
    /\ UNCHANGED maxMemories
    /\ UNCHANGED bgVars

(* the microtask at the head of the queue resumes its call up to the next await *)
ResumeStoreMemory ==
    /\ queue # <<>>
    /\ LET c == Head(queue)
       IN  CASE c.pc = 2 ->
                   LET S2 == StoreSegment2(store, c.memoryId, c.entry)
                   IN  /\ store' = S2
                       /\ queue' = Append(Tail(queue),
                              [c EXCEPT !.pc = 3,
                                        !.relationships = discoverRelationshipsBegin(S2, c.memoryId, c.entry)])
                       /\ lastCall' = NoCall
             [] c.pc = 3 ->
                   /\ store' = StoreSegment3(store, c.memoryId, c.entry, c.relationships)
                   /\ queue' = Append(Tail(queue), [c EXCEPT !.pc = 4])
                   /\ lastCall' = NoCall
             [] c.pc = 4 ->
                   /\ store' = StoreSegment4(store, c.memoryId, c.entry)
                   /\ queue' = Append(Tail(queue), [c EXCEPT !.pc = 5])
                   /\ lastCall' = NoCall
             [] c.pc = 5 ->
                   /\ store' = StoreSegment5(store, maxMemories)
                   /\ queue' = Tail(queue)
                   /\ lastCall' = StoreCall(c.arg, StoreResult(store', c.memoryId))
    /\ UNCHANGED <<maxMemories, nextId>>
    /\ UNCHANGED bgVars

(* generateMemoryAnalytics is synchronous; a caller can run it between any  *)
(* two microtasks                                                           *)
GenerateMemoryAnalytics ==
    /\ lastCall' = [op |-> "generateMemoryAnalytics", arg |-> MalformedResult,
                    result |-> StoreFailure, analytics |-> generateMemoryAnalytics(store),
                    search |-> NoSearch]
    /\ store' = storeAfterAnalytics(store)
    /\ UNCHANGED <<maxMemories, nextId, queue>>
    /\ UNCHANGED bgVars

(* importMemoryState(state), with no storeMemory call in flight *)
ImportMemoryState(state) ==
    /\ queue = <<>>
    /\ store' = importMemoryState(store, state)
    /\ lastCall' = [op |-> "importMemoryState", arg |-> MalformedResult,
                    result |-> StoreFailure, analytics |-> NoAnalytics, search |-> NoSearch]
    /\ UNCHANGED <<maxMemories, nextId, queue>>
    /\ UNCHANGED bgVars

(* searchMemories(query, options): the call waits for the embedding         *)
(* provider and then reads the store in one synchronous stretch              *)
SearchMemories(response, options) ==
    /\ queue = <<>>
    /\ lastCall' = [op |-> "searchMemories", arg |-> MalformedResult, result |-> StoreFailure,
                    analytics |-> NoAnalytics,
                    search |-> [response |-> response, options |-> options,
                                result |-> searchMemories(store, response, options)]]
    /\ UNCHANGED <<store, maxMemories, nextId, queue>>
    /\ UNCHANGED bgVars

(* removeMemory(memoryId), called on the store directly *)
RemoveMemory(memoryId) ==
    /\ queue = <<>>
    /\ store' = removeMemory(store, memoryId)
    /\ lastCall' = [op |-> "removeMemory", arg |-> MalformedResult, result |-> StoreFailure,
                    analytics |-> NoAnalytics, search |-> NoSearch, memoryId |-> memoryId]
    /\ UNCHANGED <<maxMemories, nextId, queue>>
    /\ UNCHANGED bgVars

Next == \E r \in OrchestrationResults : StoreMemory(r)

Spec == Init /\ [][Next]_vars

(* the overlapping calls all concern pages of one site *)
OverlappingResults ==
    { r \in WellFormedResults \cup {MalformedResult} : r.url.scheme # "" \/ ~r.hasQualityMetrics }

NextAsync ==
    \/ \E r \in OverlappingResults : StartStoreMemory(r)
    \/ ResumeStoreMemory
    \/ GenerateMemoryAnalytics

SpecAsync == Init /\ [][NextAsync]_vars

NextImport ==
    \/ \E r \in OrchestrationResults : StoreMemory(r)
    \/ \E state \in ImportBlobs \cup {exportMemoryState(store)} : ImportMemoryState(state)

SpecImport == Init /\ [][NextImport]_vars

(* the records stored around the searches *)
SearchTimeResults ==
    { r \in OrchestrationResults : r.timestamp # 0 /\ r.features.contentType = "" /\ r.url.scheme # "" }

NextSearch ==
    \/ \E r \in SearchTimeResults : StoreMemory(r)
    \/ ImportMemoryState(EmbeddedBlob)
    \/ \E response \in ProviderResponses : \E options \in SearchOptions :
          SearchMemories(response, options)

SpecSearch == Init /\ [][NextSearch]_vars

(* a store that only storeMemory writes to, and that is searched *)
NextStoreOnly ==
    \/ \E r \in SearchTimeResults : StoreMemory(r)
    \/ \E response \in ProviderResponses : \E options \in SearchOptions :
          SearchMemories(response, options)

SpecStoreOnly == Init /\ [][NextStoreOnly]_vars

(* ids handed to removeMemory: of stored records, of imported records, and   *)
(* one that no record ever had                                               *)
RemovableIds == {1, 2, 11, 12, 13, 99}

RemovalTimeResults == { r \in SearchTimeResults : r.embeddings = Null }

NextRemove ==
    \/ \E r \in RemovalTimeResults : StoreMemory(r)
    \/ ImportMemoryState(EmbeddedBlob)
    \/ \E memoryId \in RemovableIds : RemoveMemory(memoryId)

SpecRemove == Init /\ [][NextRemove]_vars

DiscoveryTimeResults == { r \in WellFormedResults : r.features.contentType = "" }

NextDiscovery ==
    \/ \E r \in DiscoveryTimeResults : StoreMemory(r)
    \/ ImportMemoryState(CrowdedBlob)

(* a store constructed with room for the imported records, or without *)
DiscoveryMaxMemories == {2, 8}

InitDiscovery ==
    /\ store = EmptyStore
    /\ maxMemories \in DiscoveryMaxMemories
    /\ nextId = 1
    /\ queue = <<>>
    /\ lastCall = NoCall
    /\ isActive = TRUE
    /\ activeAnalysis = <<>>
    /\ analyses = <<>>
    /\ now = 0
    /\ clock = 1000
    /\ lastCaptureTime = 0
    /\ captureLog = <<>>

SpecDiscovery == InitDiscovery /\ [][NextDiscovery]_vars

----------------------------------------------------------------------------
(* calculateCosineSimilarity in floating point.  A JavaScript Number is a   *)
(* binary floating-point number; Math.sqrt, * and / return the exact result *)
(* rounded to the nearest representable number, ties to even.  The model    *)
(* keeps that arithmetic with a significand of SignificandBits bits (a      *)
(* Number has 53).  A positive number is [m, k], of value m / 2^k with      *)
(* 2^(SignificandBits - 1) <= m < 2^SignificandBits; the vectors are small  *)
(* integers, whose products and sums are exact.                             *)

RECURSIVE Pow2(_)
Pow2(n) == IF n = 0 THEN 1 ELSE 2 * Pow2(n - 1)

MinSignificand == Pow2(SignificandBits - 1)

Normalised(m, k) ==
    IF m = 2 * MinSignificand THEN [m |-> MinSignificand, k |-> k - 1] ELSE [m |-> m, k |-> k]

RECURSIVE ScaledRadicand(_, _)
ScaledRadicand(n, k) ==
    IF n >= MinSignificand * MinSignificand THEN [n |-> n, k |-> k]
    ELSE ScaledRadicand(4 * n, k + 1)

(* Math.sqrt of a positive integer *)
FloatSqrt(n) ==
    LET scaled == ScaledRadicand(n, 0)
        r == CHOOSE r \in MinSignificand..(2 * MinSignificand - 1) :
                r * r <= scaled.n /\ (r + 1) * (r + 1) > scaled.n
    IN  Normalised(IF scaled.n > r * r + r THEN r + 1 ELSE r, scaled.k)

RoundedToEven(q, twiceRemainder, divisor) ==
    IF twiceRemainder > divisor \/ (twiceRemainder = divisor /\ q % 2 = 1) THEN q + 1 ELSE q

(* x * y of two positive numbers *)
FloatMul(x, y) ==
    LET product == x.m * y.m
        shift == IF product >= 2 * MinSignificand * MinSignificand
                 THEN SignificandBits ELSE SignificandBits - 1
        q == product \div Pow2(shift)
    IN  Normalised(RoundedToEven(q, 2 * (product % Pow2(shift)), Pow2(shift)), x.k + y.k - shift)

RECURSIVE ScaledDividend(_, _, _)
ScaledDividend(n, t, divisor) ==
    IF n \div divisor >= MinSignificand THEN [n |-> n, t |-> t]
    ELSE ScaledDividend(2 * n, t + 1, divisor)

(* d / y of a positive integer by a positive number *)
FloatDiv(d, y) ==
    LET scaled == ScaledDividend(d, 0, y.m)
        q == scaled.n \div y.m
    IN  Normalised(RoundedToEven(q, 2 * (scaled.n % y.m), y.m), scaled.t - y.k)

FloatZero == [sign |-> 0, m |-> 0, k |-> 0]

FloatOne == [sign |-> 1, m |-> MinSignificand, k |-> SignificandBits - 1]

Signed(sign, x) == [sign |-> sign, m |-> x.m, k |-> x.k]

Abs(n) == IF n < 0 THEN 0 - n ELSE n

(* mutant: the length test is missing, the loop runs over the common prefix *)
calculateCosineSimilarityNumberUnchecked(vecA, vecB) ==
    IF vecA = Null \/ vecB = Null THEN FloatZero
    ELSE LET common == IF Len(vecA) < Len(vecB) THEN Len(vecA) ELSE Len(vecB)
             dotProduct == Dot(SubSeq(vecA, 1, common), SubSeq(vecB, 1, common))
             normA == Dot(SubSeq(vecA, 1, common), SubSeq(vecA, 1, common))
             normB == Dot(SubSeq(vecB, 1, common), SubSeq(vecB, 1, common))
         IN  IF normA = 0 \/ normB = 0 \/ dotProduct = 0 THEN FloatZero
             ELSE Signed(IF dotProduct > 0 THEN 1 ELSE 0 - 1,
                         FloatDiv(Abs(dotProduct), FloatMul(FloatSqrt(normA), FloatSqrt(normB))))

(* the Number calculateCosineSimilarity returns: a zero denominator and a    *)
(* zero dot product both give 0                                              *)
calculateCosineSimilarityNumber(vecA, vecB) ==
    IF vecA = Null \/ vecB = Null \/ Len(vecA) # Len(vecB) THEN FloatZero
    ELSE LET dotProduct == Dot(vecA, vecB)
             normA == Dot(vecA, vecA)
             normB == Dot(vecB, vecB)
         IN  IF normA = 0 \/ normB = 0 \/ dotProduct = 0 THEN FloatZero
             ELSE Signed(IF dotProduct > 0 THEN 1 ELSE 0 - 1,
                         FloatDiv(Abs(dotProduct), FloatMul(FloatSqrt(normA), FloatSqrt(normB))))

----------------------------------------------------------------------------
(* The pure helpers: extractTopics, the scores createMemoryEntry copies and *)
(* calculateCosineSimilarity, applied to inputs drawn from small sets        *)

commonWords == {"the", "and", "or", "but", "in", "on", "at", "to", "for", "of", "with", "by"}

(* String.prototype.toLowerCase on the words of the sample texts *)
toLowerCase(word) ==
    CASE word = "The" -> "the"
      [] word = "With" -> "with"
      [] word = "Login" -> "login"
      [] word = "Navigation" -> "navigation"
      [] word = "Button" -> "button"
      [] OTHER -> word

(* toLowerCase().split(/\s+/) of a text, given as its pieces between runs of *)
(* whitespace (a text that starts with whitespace has a first piece "")      *)
LowerCasedWords(text) == [i \in 1..Len(text) |-> toLowerCase(text[i])]

extractTopicsFromText(text) ==
    Slice(SelectSeq(LowerCasedWords(text), LAMBDA word : Len(word) > 3 /\ word \notin commonWords), 5)

extractTopics(textSummary, visionSynthesis) ==
    Slice(Dedupe(extractTopicsFromText(textSummary) \o extractTopicsFromText(visionSynthesis)), 10)

(* text summaries and vision syntheses; <<"">> is the empty string *)
SampleTexts ==
    { <<"">>,
      <<"The", "Login", "page">>,
      <<"login", "With", "modern", "cat", "layout">>,
      <<"page", "login", "modern", "layout", "button", "navigation", "checkout">>,
      <<"", "cat", "dog", "of", "menu">>,
      <<"Navigation", "navigation", "Button", "form", "dashboard", "settings", "extraordinary">>,
      <<"with", "with", "form", "form", "form", "form", "form", "form", "sidebar">>,
      <<"shop", "cart", "checkout", "payment", "receipt", "invoice">> }

(* semanticFeatures.quality and .confidence: the raw values, copied *)
semanticScores(overallScore, confidence) == [quality |-> overallScore, confidence |-> confidence]

(* qualityMetrics.overallScore and orchestratorSynthesis.confidence of a raw *)
(* result, numbers in hundredths                                             *)
RawScores ==
    { [kind |-> "number", value |-> v] : v \in {0 - 50, 0, 50, 100, 150} }
        \cup { [kind |-> "undefined", value |-> 0], [kind |-> "string", value |-> 0] }

SampleVectors ==
    { Null, <<0, 0>>, <<1, 1>>, <<2, 2>>, <<1, 2>>, <<3, 6>>, <<2, 0>>, <<4, 0>>,
      <<0 - 1, 2>>, <<2, 0 - 1>>, <<1, 1, 1>> }

PureCall(op, input, output) ==
    [op |-> op, arg |-> MalformedResult, result |-> StoreFailure, analytics |-> NoAnalytics,
     search |-> NoSearch, input |-> input, output |-> output]

ExtractTopics(textSummary, visionSynthesis) ==
    /\ lastCall' = PureCall("extractTopics", <<textSummary, visionSynthesis>>,
                            extractTopics(textSummary, visionSynthesis))
    /\ UNCHANGED <<store, maxMemories, nextId, queue>>
    /\ UNCHANGED bgVars

SemanticScores(overallScore, confidence) ==
    /\ lastCall' = PureCall("semanticScores", <<overallScore, confidence>>,
                            semanticScores(overallScore, confidence))
    /\ UNCHANGED <<store, maxMemories, nextId, queue>>
    /\ UNCHANGED bgVars

CalculateCosineSimilarity(vecA, vecB) ==
    /\ lastCall' = PureCall("calculateCosineSimilarity", <<vecA, vecB>>,
                            calculateCosineSimilarityNumber(vecA, vecB))
    /\ UNCHANGED <<store, maxMemories, nextId, queue>>
    /\ UNCHANGED bgVars

(* raw results stamped at the first and the last hour of each month, and at *)
(* the first hour of the next year                                          *)
SeasonTimestamps ==
    { month * DaysPerMonth * HoursPerDay + hour :
        month \in 0..(MonthsPerYear - 1), hour \in {0, DaysPerMonth * HoursPerDay - 1} }
        \cup { MonthsPerYear * DaysPerMonth * HoursPerDay }

CreateMemoryEntry(timestamp) ==
    /\ lastCall' = PureCall("createMemoryEntry", timestamp,
                            createMemoryEntry(nextId, [MalformedResult EXCEPT !.timestamp = timestamp,
                                                                            !.hasQualityMetrics = TRUE]))
    /\ UNCHANGED <<store, maxMemories, nextId, queue>>
    /\ UNCHANGED bgVars

NextPure ==
    \/ \E timestamp \in SeasonTimestamps : CreateMemoryEntry(timestamp)
    \/ \E textSummary \in SampleTexts : \E visionSynthesis \in SampleTexts :
          ExtractTopics(textSummary, visionSynthesis)
    \/ \E overallScore \in RawScores : \E confidence \in RawScores :
          SemanticScores(overallScore, confidence)
    \/ \E vecA \in SampleVectors : \E vecB \in SampleVectors : CalculateCosineSimilarity(vecA, vecB)

SpecPure == Init /\ [][NextPure]_vars

----------------------------------------------------------------------------
(* The background service worker: scheduleAnalysis, performAnalysis and the *)
(* TOGGLE_AI message.  performAnalysis suspends while the screenshot is     *)
(* captured, while the vision provider works and while the legacy entry is  *)
(* saved; message handlers and timers run in between.  The storeMemory call *)
(* it awaits waits for nothing external, so no handler runs inside it.      *)

AnalysisUrl == [scheme |-> "https", host |-> "a.com"]

(* the visual features the vision agent reports, and those of its error result *)
VisionFeatures(ok) ==
    IF ok THEN [contentType |-> "", pageType |-> "", designStyle |-> "modern", userExperience |-> "modern"]
    ELSE [contentType |-> "", pageType |-> "", designStyle |-> "", userExperience |-> ""]

simplifiedResult(ok) ==
    [timestamp |-> now, url |-> AnalysisUrl, features |-> VisionFeatures(ok), hasQualityMetrics |-> TRUE,
     embeddings |-> Null]

DeleteAnalysis(id) == SetDelete(activeAnalysis, id)

scheduleAnalysis ==
    /\ isActive
    /\ Len(analyses) < MaxAnalyses
    /\ analyses' = Append(analyses, [status |-> "scheduled", pc |-> "timer", memoryId |-> 0,
                                       visionEmbeddings |-> Null])
    /\ activeAnalysis' = Append(activeAnalysis, Len(analyses) + 1)
    /\ UNCHANGED <<isActive, now>>
    /\ UNCHANGED captureVars
    /\ UNCHANGED storeVars

(* the timer set by scheduleAnalysis fires: performAnalysis up to the       *)
(* screenshot capture                                                       *)
performAnalysisStart(id) ==
    /\ analyses[id].pc = "timer"
    /\ IF ~SetHas(activeAnalysis, id)
       THEN /\ analyses' = [analyses EXCEPT ![id].pc = "done"]
            /\ UNCHANGED activeAnalysis
       ELSE IF ~isActive
       THEN /\ analyses' = [analyses EXCEPT ![id].pc = "done"]
            /\ activeAnalysis' = DeleteAnalysis(id)
       ELSE /\ analyses' = [analyses EXCEPT ![id].pc = "capturing", ![id].status = "capturing"]
            /\ UNCHANGED activeAnalysis
    /\ UNCHANGED <<isActive, now>>
    /\ UNCHANGED captureVars
    /\ UNCHANGED storeVars

(* performAnalysis from the return of captureScreenshot to its next await *)
performAnalysisAfterCapture(id, screenshot) ==
    /\ IF ~screenshot
       THEN /\ analyses' = [analyses EXCEPT ![id].pc = "done", ![id].status = "failed"]
            /\ activeAnalysis' = DeleteAnalysis(id)
       ELSE IF ~isActive
       THEN /\ analyses' = [analyses EXCEPT ![id].pc = "done", ![id].status = "analyzing"]
            /\ activeAnalysis' = DeleteAnalysis(id)
       ELSE /\ analyses' = [analyses EXCEPT ![id].pc = "analyzing", ![id].status = "analyzing"]
            /\ UNCHANGED activeAnalysis
    /\ UNCHANGED <<isActive, now>>
    /\ UNCHANGED storeVars

(* captureScreenshot returns a data URL or null *)
performAnalysisCaptured(id, screenshot) ==
    /\ analyses[id].pc = "capturing"
    /\ performAnalysisAfterCapture(id, screenshot)
    /\ UNCHANGED captureVars

CaptureInterval == 2000

(* mutant: the interval is half as long *)
RateLimitedHalfInterval(last, t) == last # 0 /\ t - last < CaptureInterval \div 2

(* the rate-limit test of captureScreenshot; lastCaptureTime is 0 until the *)
(* first capture, and 0 is falsy                                            *)
RateLimited(last, t) == last # 0 /\ t - last < CaptureInterval

CaptureDecision(id, outcome) == [analysis |-> id, at |-> clock, outcome |-> outcome]

(* chrome.tabs.get resolves or rejects inside captureScreenshot: an         *)
(* unusable tab and a rate-limited call throw, the catch block returns null *)
(* and performAnalysis cleans up; otherwise lastCaptureTime is set and      *)
(* chrome.tabs.captureVisibleTab is called in the same synchronous stretch  *)
captureScreenshotTab(id, usable) ==
    /\ analyses[id].pc = "capturing"
    /\ IF ~usable
       THEN /\ performAnalysisAfterCapture(id, FALSE)
            /\ UNCHANGED captureVars
       ELSE IF RateLimited(lastCaptureTime, clock)
       THEN /\ performAnalysisAfterCapture(id, FALSE)
            /\ captureLog' = Append(captureLog, CaptureDecision(id, "rate-limited"))
            /\ UNCHANGED <<clock, lastCaptureTime>>
       ELSE /\ lastCaptureTime' = clock
            /\ captureLog' = Append(captureLog, CaptureDecision(id, "captureVisibleTab"))
            /\ analyses' = [analyses EXCEPT ![id].pc = "captureVisibleTab"]
            /\ UNCHANGED <<isActive, activeAnalysis, now, clock>>
            /\ UNCHANGED storeVars

(* chrome.tabs.captureVisibleTab resolves with a data URL, or rejects and   *)
(* captureScreenshot returns null                                           *)
captureVisibleTabSettled(id, screenshot) ==
    /\ analyses[id].pc = "captureVisibleTab"
    /\ performAnalysisAfterCapture(id, screenshot)
    /\ UNCHANGED captureVars

(* what the embedding provider answers to generateVisualEmbeddings *)
EmbeddingResponses == { r \in ProviderResponses : r.kind = "ok" => r.embedding = <<2, 0>> }

(* a response that is not OK, and a fetch that throws (caught inside), both *)
(* give the null vector                                                      *)
generateVisualEmbeddings(response) ==
    IF response.kind = "ok" THEN response.embedding ELSE Null

(* visionAnalysis.embeddings of the analysis analyzeScreenshot returns; the  *)
(* error analysis has none                                                   *)
visionEmbeddings(ok, response) ==
    IF ok THEN generateVisualEmbeddings(response) ELSE Null

(* analyzeScreenshot returns (it never throws: a provider failure yields an *)
(* error analysis): the result is stored in the semantic memory             *)
performAnalysisAnalyzed(id, ok, response) ==
    /\ analyses[id].pc = "analyzing"
    /\ store' = storeMemorySync(store, nextId, simplifiedResult(ok), maxMemories)
    /\ nextId' = nextId + 1
    /\ lastCall' = StoreCall(simplifiedResult(ok), StoreResult(store', nextId))
    /\ analyses' = [analyses EXCEPT ![id].pc = "saving", ![id].memoryId = nextId,
                                     ![id].visionEmbeddings = visionEmbeddings(ok, response)]
    /\ UNCHANGED <<maxMemories, queue, isActive, activeAnalysis, now>>
    /\ UNCHANGED captureVars

(* storeMemoryEntry resolves, or rejects and the catch block cleans up *)
performAnalysisSaved(id, ok) ==
    /\ analyses[id].pc = "saving"
    /\ IF ok
       THEN /\ analyses' = [analyses EXCEPT ![id].pc = "done"]
            /\ UNCHANGED activeAnalysis
       ELSE /\ analyses' = [analyses EXCEPT ![id].pc = "done", ![id].status = "failed"]
            /\ activeAnalysis' = DeleteAnalysis(id)
    /\ UNCHANGED <<isActive, now>>
    /\ UNCHANGED captureVars
    /\ UNCHANGED storeVars

cancelAllActiveAnalyses(objects, keys) ==
    [id \in 1..Len(objects) |->
        IF SetHas(keys, id) THEN [objects[id] EXCEPT !.status = "cancelled"] ELSE objects[id]]

(* handleMessage, case TOGGLE_AI *)
ToggleAI(value) ==
    /\ isActive' = value
    /\ IF isActive /\ ~value
       THEN /\ analyses' = cancelAllActiveAnalyses(analyses, activeAnalysis)
            /\ activeAnalysis' = <<>>
       ELSE UNCHANGED <<analyses, activeAnalysis>>
    /\ UNCHANGED now
    /\ UNCHANGED captureVars
    /\ UNCHANGED storeVars

(* handleMessage, case SETTINGS_UPDATED, for a message that carries isActive: *)
(* applySettingsUpdate assigns the flag and leaves the analyses alone         *)
SettingsUpdated(value) ==
    /\ isActive' = value
    /\ UNCHANGED <<activeAnalysis, analyses, now>>
    /\ UNCHANGED captureVars
    /\ UNCHANGED storeVars

(* time passes *)
Tick ==
    /\ \E t \in Timestamps : t > now /\ now' = t /\ \A u \in Timestamps : ~(now < u /\ u < t)
    /\ UNCHANGED <<isActive, activeAnalysis, analyses>>
    /\ UNCHANGED captureVars
    /\ UNCHANGED storeVars

(* Date.now() moves on to its next reading *)
ClockTick ==
    /\ \E t \in CaptureClock : t > clock /\ clock' = t /\ \A u \in CaptureClock : ~(clock < u /\ u < t)
    /\ UNCHANGED <<isActive, activeAnalysis, analyses, now, lastCaptureTime, captureLog>>
    /\ UNCHANGED storeVars

NextBackground ==
    \/ scheduleAnalysis
    \/ \E id \in 1..Len(analyses) : performAnalysisStart(id)
    \/ \E id \in 1..Len(analyses) : \E screenshot \in BOOLEAN : performAnalysisCaptured(id, screenshot)
    \/ \E id \in 1..Len(analyses) : \E ok \in BOOLEAN : \E response \in EmbeddingResponses :
          performAnalysisAnalyzed(id, ok, response)
    \/ \E id \in 1..Len(analyses) : \E ok \in BOOLEAN : performAnalysisSaved(id, ok)
    \/ \E value \in BOOLEAN : ToggleAI(value)
    \/ Tick

SpecBackground == Init /\ [][NextBackground]_vars

(* the same life cycle with captureScreenshot spelled out and with the      *)
(* SETTINGS_UPDATED message; the vision agent answers one way               *)
AnalyzedResponse == [kind |-> "ok", embedding |-> <<2, 0>>]

NextCapture ==
    \/ scheduleAnalysis
    \/ \E id \in 1..Len(analyses) : performAnalysisStart(id)
    \/ \E id \in 1..Len(analyses) : \E usable \in BOOLEAN : captureScreenshotTab(id, usable)
    \/ \E id \in 1..Len(analyses) : \E screenshot \in BOOLEAN : captureVisibleTabSettled(id, screenshot)
    \/ \E id \in 1..Len(analyses) : performAnalysisAnalyzed(id, TRUE, AnalyzedResponse)
    \/ \E id \in 1..Len(analyses) : \E ok \in BOOLEAN : performAnalysisSaved(id, ok)
    \/ \E value \in BOOLEAN : ToggleAI(value)
    \/ \E value \in BOOLEAN : SettingsUpdated(value)
    \/ ClockTick

SpecCapture == Init /\ [][NextCapture]_vars

----------------------------------------------------------------------------
(* Properties of the store *)

LiveIds(S) == MapKeys(S.memoryStore)

Quiescent == queue = <<>>

StoredCount == nextId - 1

BucketsOf(S, granularity) ==
    CASE granularity = "hour" -> S.temporalBuckets.hour
      [] granularity = "day" -> S.temporalBuckets.day
      [] granularity = "week" -> S.temporalBuckets.week
      [] granularity = "month" -> S.temporalBuckets.month

KeyOf(granularity, t) ==
    CASE granularity = "hour" -> HourKey(t)
      [] granularity = "day" -> DayKey(t)
      [] granularity = "week" -> WeekKey(t)
      [] granularity = "month" -> MonthKey(t)

InSetOf(m, key, id) == MapHas(m, key) /\ SetHas(MapGet(m, key), id)

FullyIndexed(S, e) ==
    /\ \A g \in Granularities :
          /\ InSetOf(BucketsOf(S, g), KeyOf(g, e.v.timestamp), e.k)
          /\ Cardinality({ i \in 1..Len(BucketsOf(S, g)) : SetHas(BucketsOf(S, g)[i].v, e.k) }) = 1
    /\ InSetOf(S.domainClusters, e.v.domain, e.k)
    /\ \A c \in Range(e.v.categories) : InSetOf(S.semanticCategories, c, e.k)

IdsInSets(m) == UNION { Range(m[i].v) : i \in 1..Len(m) }

(* C1: whenever no storeMemory call is in progress, every record of the     *)
(* canonical table is in exactly one bucket of each temporal granularity    *)
(* (the one of its own timestamp), in the domain set of its domain and in   *)
(* the category set of each of its categories.                              *)
C1_FanOut ==
    Quiescent => \A i \in 1..Len(store.memoryStore) : FullyIndexed(store, store.memoryStore[i])

C1_Witness ==
    /\ Quiescent
    /\ StoredCount > Len(store.memoryStore)
    /\ \E i \in 1..Len(store.memoryStore) :
          /\ store.memoryStore[i].v.categories # <<>>
          /\ FullyIndexed(store, store.memoryStore[i])

(* C2: whenever no storeMemory call is in progress the canonical table      *)
(* holds at most maxMemories records, and exactly maxMemories once more     *)
(* than maxMemories records have been stored.                               *)
C2_CapacityBound ==
    Quiescent =>
        /\ Len(store.memoryStore) <= maxMemories
        /\ (StoredCount > maxMemories => Len(store.memoryStore) = maxMemories)

C2_Witness ==
    /\ Quiescent
    /\ StoredCount > maxMemories
    /\ Len(store.memoryStore) = maxMemories

(* C3: after non-overlapping storeMemory calls no id that is absent from    *)
(* the canonical table is left in the embedding index, a temporal bucket,   *)
(* a category set, a domain set or a concept cluster.                       *)
C3_NoDanglingIds ==
    /\ MapKeys(store.embeddingIndex) \subseteq LiveIds(store)
    /\ \A g \in Granularities : IdsInSets(BucketsOf(store, g)) \subseteq LiveIds(store)
    /\ IdsInSets(store.semanticCategories) \subseteq LiveIds(store)
    /\ IdsInSets(store.domainClusters) \subseteq LiveIds(store)
    /\ \A i \in 1..Len(store.conceptClusters) :
          Range(store.conceptClusters[i].v.members) \subseteq LiveIds(store)

C3_Witness ==
    /\ StoredCount > Len(store.memoryStore)
    /\ IdsInSets(store.domainClusters) # {}
    /\ IdsInSets(store.semanticCategories) # {}
    /\ \E i \in 1..Len(store.domainClusters) : store.domainClusters[i].v = <<>>

(* C4: after a removal no edge list holds an edge whose targetId is absent  *)
(* from the canonical table, and the graph has no entry keyed by such an id.*)
C4_EveryEdgeStripped ==
    /\ MapKeys(store.relationshipGraph) \subseteq LiveIds(store)
    /\ \A i \in 1..Len(store.relationshipGraph) :
          \A j \in 1..Len(store.relationshipGraph[i].v) :
             store.relationshipGraph[i].v[j].targetId \in LiveIds(store)

(* C5: a storeMemory call that returns stored: true with memoryId m leaves  *)
(* m in the canonical table.                                                *)
C5_InsertedRecordSurvives ==
    (lastCall.op = "storeMemory" /\ lastCall.result.stored)
        => MapHas(store.memoryStore, lastCall.result.memoryId)


ForwardKinds == {"domain-related", "semantic-similar", "temporal-related", "visual-similar"}

(* C7: immediately after a storeMemory call for A returns, every forward    *)
(* edge A -> B of kind K and strength S has its reverse edge B -> A of kind *)
(* K-reverse and strength S in B's edge list.                               *)
C7_Reciprocity ==
    (lastCall.op = "storeMemory" /\ lastCall.result.stored
        /\ MapHas(store.relationshipGraph, lastCall.result.memoryId)) =>
        LET a == lastCall.result.memoryId
            edges == MapGet(store.relationshipGraph, a)
        IN  \A i \in 1..Len(edges) :
               edges[i].type \in ForwardKinds =>
                  /\ MapHas(store.relationshipGraph, edges[i].targetId)
                  /\ ReverseEdge(edges[i], a) \in Range(MapGet(store.relationshipGraph, edges[i].targetId))

RECURSIVE SumCounts(_)
SumCounts(counts) == IF counts = <<>> THEN 0 ELSE Head(counts).count + SumCounts(Tail(counts))

(* C8: no operation that runs while a storeMemory call is suspended sees a  *)
(* record that is in the canonical table but not yet in its indices: every  *)
(* analytics snapshot counts each record in exactly one domain, and at      *)
(* every point where another operation can run every record is indexed.     *)
C8_InsertAtomicity ==
    /\ lastCall.op = "generateMemoryAnalytics" =>
          SumCounts(lastCall.analytics.topDomains) = lastCall.analytics.totalMemories
    /\ \A i \in 1..Len(store.memoryStore) : FullyIndexed(store, store.memoryStore[i])


EdgeTargets(S) ==
    UNION { { S.relationshipGraph[i].v[j].targetId : j \in 1..Len(S.relationshipGraph[i].v) } :
            i \in 1..Len(S.relationshipGraph) }

(* C10: right after importMemoryState every derived index (embedding index, *)
(* temporal buckets, category and domain index, cluster membership,         *)
(* relationship graph) refers only to ids of the imported canonical table.  *)
C10_ImportRebuilds ==
    lastCall.op = "importMemoryState" =>
        /\ MapKeys(store.embeddingIndex) \subseteq LiveIds(store)
        /\ \A g \in Granularities : IdsInSets(BucketsOf(store, g)) \subseteq LiveIds(store)
        /\ IdsInSets(store.semanticCategories) \subseteq LiveIds(store)
        /\ IdsInSets(store.domainClusters) \subseteq LiveIds(store)
        /\ \A i \in 1..Len(store.conceptClusters) :
              Range(store.conceptClusters[i].v.members) \subseteq LiveIds(store)
        /\ MapKeys(store.relationshipGraph) \subseteq LiveIds(store)
        /\ EdgeTargets(store) \subseteq LiveIds(store)


(* C9: the result of a provider call that returns while analysis is         *)
(* disabled, or after the analysis was cancelled, is discarded: the step    *)
(* that resumes performAnalysis makes no storeMemory call and leaves the    *)
(* semantic store as it is.                                                 *)
C9_CancellationDiscard ==
    [][ \A id \in 1..Len(analyses) :
          (analyses[id].pc = "analyzing" /\ (~isActive \/ analyses[id].status = "cancelled")
              /\ analyses'[id].pc # "analyzing")
            => (store' = store /\ analyses'[id].memoryId = 0)
      ]_vars

(* C11: for a store reached by storeMemory calls, evictions included,        *)
(* importMemoryState(exportMemoryState()) yields a store with the same       *)
(* analytics (totals, topCategories and topDomains in the same order,        *)
(* cluster summaries), the same relationship edges and the same cluster      *)
(* memberships.                                                              *)
C11_RoundTrip ==
    LET imported == importMemoryState(store, exportMemoryState(store))
    IN  /\ generateMemoryAnalytics(imported) = generateMemoryAnalytics(store)
        /\ imported.relationshipGraph = store.relationshipGraph
        /\ imported.conceptClusters = store.conceptClusters

(* C13: storeMemory given a raw result with missing sections (here: no       *)
(* quality metrics) substitutes defaults, inserts the record and returns     *)
(* stored: true.                                                             *)
C13_BuilderNeverFails ==
    lastCall.op = "storeMemory" => lastCall.result.stored

(* C14: a storeMemory call that returns stored: false leaves the canonical   *)
(* table, every index and the relationship graph exactly as they were; the   *)
(* call resolves with a result object.                                       *)
C14_NoPartialWrites ==
    [][ (lastCall'.op = "storeMemory" /\ ~lastCall'.result.stored) =>
            (store' = store /\ nextId' = nextId /\ queue' = queue /\ lastCall'.result = StoreFailure)
      ]_vars

C14_Witness ==
    /\ lastCall.op = "storeMemory" /\ ~lastCall.result.stored
    /\ store.memoryStore # <<>>
    /\ queue # <<>>

(* C15: when the raw result carries a unified embedding, the stored record   *)
(* keeps it, its id is in the embedding index and, cluster assignment        *)
(* having run, the record belongs to exactly one concept cluster.            *)
C15_EmbeddingFanOut ==
    (/\ lastCall.op = "storeMemory" /\ lastCall.result.stored
     /\ lastCall.arg.embeddings # Null
     /\ MapHas(store.memoryStore, lastCall.result.memoryId)) =>
        LET m == lastCall.result.memoryId
        IN  /\ MapGet(store.memoryStore, m).embeddingsTensor.unified = lastCall.arg.embeddings
            /\ MapHas(store.embeddingIndex, m)
            /\ Len(getMemoryClusters(store, m)) = 1

(* C12: when the embedding provider fails for the query, searchMemories      *)
(* returns (it does not throw) a result with an empty results list and an    *)
(* error field.                                                              *)
C12_SearchFailureFlagged ==
    (lastCall.op = "searchMemories" /\ lastCall.search.response.kind # "ok") =>
        /\ lastCall.search.result.results = <<>>
        /\ lastCall.search.result.error

Position(m, key) == CHOOSE i \in 1..Len(m) : m[i].k = key

(* the record id is indexed with an embedding, reaches the threshold for     *)
(* the query and passes every supplied filter                                *)
Qualifies(S, id, queryEmbedding, options) ==
    /\ MapHas(S.embeddingIndex, id) /\ MapHas(S.memoryStore, id)
    /\ MapGet(S.embeddingIndex, id).unified # Null
    /\ calculateCosineSimilarity(queryEmbedding, MapGet(S.embeddingIndex, id).unified) >= options.threshold
    /\ (options.domainFilter # "" => MapGet(S.memoryStore, id).domain = options.domainFilter)
    /\ (options.categoryFilter # "" =>
            options.categoryFilter \in Range(MapGet(S.memoryStore, id).categories))
    /\ (options.temporalFilter.on =>
            /\ options.temporalFilter.start <= MapGet(S.memoryStore, id).timestamp
            /\ MapGet(S.memoryStore, id).timestamp <= options.temporalFilter.end)

(* C16: with a query embedding, searchMemories returns exactly the indexed   *)
(* records whose similarity to the query is >= threshold and that pass every *)
(* supplied filter, by descending similarity, cut to the first limit         *)
(* entries: nothing else is returned, and a qualifying record is left out    *)
(* only when limit better-or-equal ones are returned.                        *)
C16_SearchResultSet ==
    (lastCall.op = "searchMemories" /\ lastCall.search.response.kind = "ok") =>
        LET q == lastCall.search.response.embedding
            o == lastCall.search.options
            res == lastCall.search.result.results
            expected == { id \in MapKeys(store.embeddingIndex) : Qualifies(store, id, q, o) }
            returned == { res[i].memoryId : i \in 1..Len(res) }
        IN  /\ ~lastCall.search.result.error
            /\ returned \subseteq expected
            /\ Cardinality(returned) = Len(res)
            /\ Len(res) = (IF Cardinality(expected) < o.limit THEN Cardinality(expected) ELSE o.limit)
            /\ \A i \in 1..Len(res) :
                  res[i].similarity =
                     calculateCosineSimilarity(q, MapGet(store.embeddingIndex, res[i].memoryId).unified)
            /\ \A i \in 1..Len(res) : \A j \in 1..Len(res) :
                  i < j => res[i].similarity >= res[j].similarity
            /\ \A id \in expected \ returned : \A i \in 1..Len(res) :
                  res[i].similarity >=
                     calculateCosineSimilarity(q, MapGet(store.embeddingIndex, id).unified)

(* a search cut by the domain filter and by both ends of the date range, and *)
(* one whose only result sits exactly on the threshold                       *)
C16_Witness ==
    /\ lastCall.op = "searchMemories" /\ lastCall.search.response.kind = "ok"
    /\ Len(store.embeddingIndex) > Len(lastCall.search.result.results)
    /\ lastCall.search.result.results # <<>>
    /\ \/ lastCall.search.options.domainFilter # "" /\ lastCall.search.options.temporalFilter.on
       \/ \A i \in 1..Len(lastCall.search.result.results) :
             lastCall.search.result.results[i].similarity = lastCall.search.options.threshold

(* C17: for the store and query embedding at hand, a repeated searchMemories *)
(* call with the same options returns the same ordered list, and results of  *)
(* equal similarity appear in the order in which their records were          *)
(* inserted.                                                                 *)
C17_SearchDeterminism ==
    lastCall.op = "searchMemories" =>
        LET res == lastCall.search.result.results
        IN  /\ lastCall.search.result =
                  searchMemories(store, lastCall.search.response, lastCall.search.options)
            /\ \A i \in 1..Len(res) : \A j \in 1..Len(res) :
                  (i < j /\ res[i].similarity = res[j].similarity) =>
                      Position(store.memoryStore, res[i].memoryId)
                          < Position(store.memoryStore, res[j].memoryId)

C17_Witness ==
    /\ lastCall.op = "searchMemories"
    /\ \E i \in 1..Len(lastCall.search.result.results) :
       \E j \in 1..Len(lastCall.search.result.results) :
          /\ i < j
          /\ lastCall.search.result.results[i].similarity = lastCall.search.result.results[j].similarity

LiveEdges(S, id) ==
    IF MapHas(S.relationshipGraph, id)
    THEN SelectSeq(MapGet(S.relationshipGraph, id), LAMBDA rel : rel.targetId \in LiveIds(S))
    ELSE <<>>

(* C18: every relationship attached to a search result resolves to a record  *)
(* of the canonical table; an edge to an evicted id is left out, without an  *)
(* undefined neighbour and without an error.                                 *)
C18_NoDanglingNeighbours ==
    (lastCall.op = "searchMemories" /\ lastCall.search.response.kind = "ok"
        /\ lastCall.search.options.includeRelationships) =>
        /\ ~lastCall.search.result.error
        /\ \A r \in Range(lastCall.search.result.results) :
              /\ \A rel \in Range(r.relationships) : rel.memory \in LiveIds(store)
              /\ Len(r.relationships) = Len(LiveEdges(store, r.memoryId))

(* a result whose record still holds an edge to an evicted record *)
C18_Witness ==
    /\ lastCall.op = "searchMemories" /\ lastCall.search.options.includeRelationships
    /\ \E r \in Range(lastCall.search.result.results) :
          /\ r.relationships # <<>>
          /\ Len(MapGet(store.relationshipGraph, r.memoryId)) > Len(r.relationships)

(* C19: generateMemoryAnalytics leaves the canonical table, the indices, the *)
(* clusters and the relationship graph unchanged, also while a storeMemory   *)
(* call is suspended mid-insert, and it returns its report there.            *)
C19_AnalyticsReadOnly ==
    [][ lastCall'.op = "generateMemoryAnalytics" =>
            /\ store' = store
            /\ queue' = queue
            /\ lastCall'.analytics.totalMemories = Len(store.memoryStore)
      ]_vars

C19_Witness ==
    /\ lastCall.op = "generateMemoryAnalytics"
    /\ queue # <<>>
    /\ \E i \in 1..Len(store.memoryStore) : ~FullyIndexed(store, store.memoryStore[i])

ClusterProbes == RawEmbeddings \cup { <<0, 2>> }

(* cos(e, a) > cos(e, b), for vectors without negative components *)
MoreSimilar(e, a, b) ==
    Dot(e, a) * Dot(e, a) * Dot(b, b) > Dot(e, b) * Dot(e, b) * Dot(a, a)

(* C20: a new record with an embedding joins the cluster whose centroid is   *)
(* the most similar to the embedding when that similarity exceeds 0.85       *)
(* (also when several clusters exceed it); otherwise a new cluster is made   *)
(* with the record as sole member and the embedding as centroid.  Either     *)
(* way the record ends in exactly one cluster.                               *)
C20_MostSimilarCluster ==
    \A e \in ClusterProbes :
        LET entry == EmbeddedEntry(nextId, 1, "a.com", "", e)
            before == store.conceptClusters
            after == updateConceptClusters(indexEmbeddings(store, nextId, entry), nextId, entry)
            joined == getMemoryClusters(after, nextId)
            over == { i \in 1..Len(before) : SimilarityAbove(e, before[i].v.centroid, ClusterThreshold) }
        IN  /\ Len(joined) = 1
            /\ IF over = {}
               THEN /\ ~MapHas(before, joined[1].k)
                    /\ joined[1].v.members = <<nextId>>
                    /\ joined[1].v.centroid = e
               ELSE /\ MapHas(before, joined[1].k)
                    /\ \A i \in 1..Len(before) :
                          ~MoreSimilar(e, before[i].v.centroid, MapGet(before, joined[1].k).centroid)

(* C21: every concept cluster with at least one member has as centroid the   *)
(* arithmetic mean of the embeddings of its current members, after a member  *)
(* joined and after a member was removed or evicted.                         *)
C21_CentroidIsMean ==
    \A c \in Range(store.conceptClusters) :
        c.v.members # <<>> =>
            /\ \A id \in Range(c.v.members) :
                  MapHas(store.embeddingIndex, id) /\ MapGet(store.embeddingIndex, id).unified # Null
            /\ LET embeddings == [i \in 1..Len(c.v.members) |->
                                    MapGet(store.embeddingIndex, c.v.members[i]).unified]
                   total == VectorSum(embeddings, Len(c.v.centroid))
               IN  \A i \in 1..Len(c.v.centroid) : c.v.centroid[i] * Len(embeddings) = total[i]

(* C22: removeMemory of an id that is not in the store changes nothing, and  *)
(* a second removeMemory(id) right after removeMemory(id) changes nothing.   *)
C22_RemoveIdempotent ==
    [][ lastCall'.op = "removeMemory" =>
            /\ (lastCall'.memoryId \notin LiveIds(store) => store' = store)
            /\ removeMemory(store', lastCall'.memoryId) = store'
      ]_vars

(* what a removal of the ids in gone must leave alone in the records of kept *)
FramePreserved(before, after, gone, kept) ==
    /\ \A k \in kept :
          /\ MapHas(after.memoryStore, k)
          /\ MapGet(after.memoryStore, k) = MapGet(before.memoryStore, k)
          /\ MapHas(before.embeddingIndex, k) =>
                (MapHas(after.embeddingIndex, k)
                    /\ MapGet(after.embeddingIndex, k) = MapGet(before.embeddingIndex, k))
          /\ MapHas(before.relationshipGraph, k) =>
                /\ MapHas(after.relationshipGraph, k)
                /\ SelectSeq(MapGet(after.relationshipGraph, k), LAMBDA rel : rel.targetId \notin gone)
                     = SelectSeq(MapGet(before.relationshipGraph, k), LAMBDA rel : rel.targetId \notin gone)
    /\ \A k \in kept : \A g \in Granularities :
          \A i \in 1..Len(BucketsOf(before, g)) :
             SetHas(BucketsOf(before, g)[i].v, k) => InSetOf(BucketsOf(after, g), BucketsOf(before, g)[i].k, k)
    /\ \A k \in kept : \A i \in 1..Len(before.semanticCategories) :
          SetHas(before.semanticCategories[i].v, k)
              => InSetOf(after.semanticCategories, before.semanticCategories[i].k, k)
    /\ \A k \in kept : \A i \in 1..Len(before.domainClusters) :
          SetHas(before.domainClusters[i].v, k)
              => InSetOf(after.domainClusters, before.domainClusters[i].k, k)
    /\ \A k \in kept : \A i \in 1..Len(before.conceptClusters) :
          SetHas(before.conceptClusters[i].v.members, k)
              => /\ MapHas(after.conceptClusters, before.conceptClusters[i].k)
                 /\ SetHas(MapGet(after.conceptClusters, before.conceptClusters[i].k).members, k)

(* C23: removeMemory(id), called directly or by eviction, changes nothing    *)
(* that does not concern id: every other record stays with its fields        *)
(* unchanged, keeps its index and cluster memberships, and keeps the edges   *)
(* of its edge list whose target is not a removed id, in the same order.     *)
C23_RemovalFrame ==
    [][ /\ lastCall'.op = "removeMemory" =>
              FramePreserved(store, store', {lastCall'.memoryId},
                             LiveIds(store) \ {lastCall'.memoryId})
        /\ (lastCall'.op = "storeMemory" /\ lastCall'.result.stored /\ nextId' = nextId + 1) =>
              LET gone == (LiveIds(store) \ LiveIds(store')) \cup {nextId}
              IN  FramePreserved(store, store', gone, LiveIds(store) \ gone)
      ]_vars

(* a direct removal, and an eviction, in a store where a surviving record    *)
(* has edges and a cluster                                                   *)
C23_Witness ==
    /\ lastCall.op = "removeMemory"
    /\ lastCall.memoryId \in {11, 12, 13}
    /\ StoredCount > 0
    /\ \E e \in Range(store.relationshipGraph) : e.k \in LiveIds(store) /\ Len(e.v) > 1
    /\ \E c \in Range(store.conceptClusters) : c.v.members # <<>>

(* C24: in every reachable state no record's edge list holds an edge,       *)
(* forward or reverse, of any kind, whose targetId is the record's own id,   *)
(* although discovery runs after the record entered the domain and temporal  *)
(* indices.                                                                  *)
C24_NoSelfRelationship ==
    \A e \in Range(store.relationshipGraph) :
        \A i \in 1..Len(e.v) : e.v[i].targetId # e.k

(* a stored record that discovery found in its own domain set and day        *)
(* bucket, with forward edges of both kinds                                  *)
C24_Witness ==
    \E e \in Range(store.relationshipGraph) :
        /\ MapHas(store.memoryStore, e.k)
        /\ LET entry == MapGet(store.memoryStore, e.k)
           IN  /\ InSetOf(store.domainClusters, entry.domain, e.k)
               /\ InSetOf(store.temporalBuckets.day, DayKey(entry.timestamp), e.k)
        /\ \E i \in 1..Len(e.v) : e.v[i].type = "domain-related"
        /\ \E i \in 1..Len(e.v) : e.v[i].type = "temporal-related"

ForwardEdges(S, k, type) ==
    IF MapHas(S.relationshipGraph, k)
    THEN SelectSeq(MapGet(S.relationshipGraph, k), LAMBDA rel : rel.type = type)
    ELSE <<>>

Targets(edges) == { edges[i].targetId : i \in 1..Len(edges) }

DistinctTargets(edges) ==
    \A i, j \in 1..Len(edges) : edges[i].targetId = edges[j].targetId => i = j

UnifiedOf(S, id) ==
    IF MapHas(S.embeddingIndex, id) THEN MapGet(S.embeddingIndex, id).unified ELSE Null

VisionOf(S, id) ==
    IF MapHas(S.embeddingIndex, id) THEN MapGet(S.embeddingIndex, id).vision ELSE Null

(* the forward edges of record k in the state after, against the candidates  *)
(* that were in the store, in the state before, when k was stored            *)
BoundedDiscovery(before, after, k, candidates) ==
    LET entry == MapGet(after.memoryStore, k)
        domain == ForwardEdges(after, k, "domain-related")
        semantic == ForwardEdges(after, k, "semantic-similar")
        temporal == ForwardEdges(after, k, "temporal-related")
        visual == ForwardEdges(after, k, "visual-similar")
        unified == entry.embeddingsTensor.unified
        vision == entry.embeddingsTensor.vision
    IN  /\ Len(domain) <= 5 /\ DistinctTargets(domain)
        /\ \A i \in 1..Len(domain) :
              /\ domain[i].targetId \in candidates \ {k}
              /\ MapGet(before.memoryStore, domain[i].targetId).domain = entry.domain
              /\ domain[i].strength = 70
        /\ Len(temporal) <= 3 /\ DistinctTargets(temporal)
        /\ \A i \in 1..Len(temporal) :
              /\ temporal[i].targetId \in candidates \ {k}
              /\ DayKey(MapGet(before.memoryStore, temporal[i].targetId).timestamp)
                    = DayKey(entry.timestamp)
              /\ temporal[i].strength = 50
        /\ Len(semantic) <= 5 /\ DistinctTargets(semantic)
        /\ \A i \in 1..Len(semantic) :
              /\ semantic[i].targetId \in candidates \ {k}
              /\ SimilarityAbove(unified, UnifiedOf(before, semantic[i].targetId), 70)
              /\ semantic[i].strength
                    = calculateCosineSimilarity(unified, UnifiedOf(before, semantic[i].targetId))
        /\ \A j \in candidates \ (Targets(semantic) \cup {k}) :
              SimilarityAbove(unified, UnifiedOf(before, j), 70) =>
                  /\ Len(semantic) = 5
                  /\ \A i \in 1..Len(semantic) :
                        ~ MoreSimilar(unified, UnifiedOf(before, j),
                                      UnifiedOf(before, semantic[i].targetId))
        /\ Len(visual) <= 3 /\ DistinctTargets(visual)
        /\ (vision = Null => visual = <<>>)
        /\ \A i \in 1..Len(visual) :
              /\ visual[i].targetId \in candidates \ {k}
              /\ SimilarityAbove(vision, VisionOf(before, visual[i].targetId), 80)

StoredBefore(S, k) ==
    { S.memoryStore[i].k : i \in 1..(Position(S.memoryStore, k) - 1) }

(* C25: the forward edges discovery creates for a new record are at most 5   *)
(* domain-related edges (distinct other records of the same domain, strength *)
(* 0.7), at most 5 semantic-similar edges (similarity strictly above 0.7,    *)
(* the highest ones, strength equal to the similarity), at most 3            *)
(* temporal-related edges (distinct other records of the same calendar day,  *)
(* strength 0.5) and at most 3 visual-similar edges (only for a record with  *)
(* a vision embedding, similarity strictly above 0.8); every target is a     *)
(* record that was in the store at discovery time.                           *)
C25_BoundedDiscovery ==
    [][ /\ (lastCall'.op = "storeMemory" /\ lastCall'.result.stored
              /\ MapHas(store'.memoryStore, lastCall'.result.memoryId)) =>
              BoundedDiscovery(store, store', lastCall'.result.memoryId, LiveIds(store))
        /\ lastCall'.op = "importMemoryState" =>
              \A k \in LiveIds(store') :
                  BoundedDiscovery(store', store', k, StoredBefore(store', k))
      ]_vars

(* a record stored into the crowded store, with the full count of domain and *)
(* temporal edges, next to a record that holds the full count of every kind  *)
(* and left out its weakest semantic candidate, stored first                 *)
C25_Witness ==
    /\ lastCall.op = "storeMemory" /\ lastCall.result.stored
    /\ \E k \in LiveIds(store) \cap (1..MaxInserts) :
          /\ Len(ForwardEdges(store, k, "domain-related")) = 5
          /\ Len(ForwardEdges(store, k, "temporal-related")) = 3
    /\ Len(ForwardEdges(store, 27, "domain-related")) = 5
    /\ Len(ForwardEdges(store, 27, "semantic-similar")) = 5
    /\ Len(ForwardEdges(store, 27, "temporal-related")) = 3
    /\ Len(ForwardEdges(store, 27, "visual-similar")) = 3
    /\ Len(ForwardEdges(store, 25, "semantic-similar")) > 0
    /\ 21 \notin Targets(ForwardEdges(store, 27, "semantic-similar"))

(* C26: when generateVisualEmbeddings yields the null vector during an       *)
(* analysis, performAnalysis still calls storeMemory: the record is in the   *)
(* canonical table with its embedding absent, and is not in the embedding    *)
(* index.                                                                    *)
C26_EmbeddingFailureStillStores ==
    [][ \A id \in 1..Len(analyses) :
          (analyses[id].pc = "analyzing" /\ analyses'[id].pc # "analyzing"
              /\ analyses'[id].visionEmbeddings = Null) =>
            /\ lastCall'.op = "storeMemory" /\ lastCall'.result.stored
            /\ lastCall'.result.memoryId = analyses'[id].memoryId
            /\ MapHas(store'.memoryStore, analyses'[id].memoryId)
            /\ analyses'[id].memoryId \notin LiveIds(store)
            /\ LET entry == MapGet(store'.memoryStore, analyses'[id].memoryId)
               IN  entry.embeddingsTensor.unified = Null /\ entry.embeddingsTensor.vision = Null
            /\ ~MapHas(store'.embeddingIndex, analyses'[id].memoryId)
      ]_vars

(* an analysis whose vision analysis succeeded and whose embedding call      *)
(* failed, with its record in the store                                      *)
C26_Witness ==
    \E id \in 1..Len(analyses) :
        /\ analyses[id].pc \in {"saving", "done"}
        /\ analyses[id].memoryId # 0
        /\ analyses[id].visionEmbeddings = Null
        /\ MapHas(store.memoryStore, analyses[id].memoryId)
        /\ "modern" \in Range(MapGet(store.memoryStore, analyses[id].memoryId).categories)

NonStopwordTokens(textSummary, visionSynthesis) ==
    Dedupe(SelectSeq(LowerCasedWords(textSummary \o visionSynthesis),
                     LAMBDA word : word # "" /\ word \notin commonWords))

(* C27: the topics are the 10 longest non-stopword tokens of the text        *)
(* summary plus the vision synthesis, lowercased, de-duplicated, in order of *)
(* first occurrence; never more than 10, never a duplicate or a stopword.    *)
C27_TopicDerivation ==
    lastCall.op = "extractTopics" =>
        LET topics == lastCall.output
            tokens == NonStopwordTokens(lastCall.input[1], lastCall.input[2])
        IN  /\ Len(topics) <= 10
            /\ \A i, j \in 1..Len(topics) : topics[i] = topics[j] => i = j
            /\ \A i \in 1..Len(topics) : topics[i] \notin commonWords
            /\ topics = SelectSeq(tokens, LAMBDA word : word \in Range(topics))
            /\ Len(topics) = (IF Len(tokens) < 10 THEN Len(tokens) ELSE 10)
            /\ \A word \in Range(topics) : \A other \in Range(tokens) \ Range(topics) :
                  Len(word) >= Len(other)

InUnitInterval(score) == score.kind = "number" /\ 0 <= score.value /\ score.value <= 100

(* C28: semanticFeatures.quality and semanticFeatures.confidence of a record *)
(* are numbers in [0,1]; a raw value that is absent, non-numeric or outside  *)
(* [0,1] is stored as 0.                                                     *)
C28_ScoresInRange ==
    lastCall.op = "semanticScores" =>
        /\ InUnitInterval(lastCall.output.quality)
        /\ InUnitInterval(lastCall.output.confidence)
        /\ ~InUnitInterval(lastCall.input[1]) => lastCall.output.quality.value = 0
        /\ ~InUnitInterval(lastCall.input[2]) => lastCall.output.confidence.value = 0

Scaled(v, c) == [i \in 1..Len(v) |-> c * v[i]]

PositiveMultiple(vecA, vecB) ==
    /\ Dot(vecA, vecA) # 0
    /\ \E c \in 1..3 : vecB = Scaled(vecA, c)

ZeroCase(vecA, vecB) ==
    \/ Len(vecA) # Len(vecB)
    \/ Dot(vecA, vecA) = 0
    \/ Dot(vecB, vecB) = 0

(* within four units of the last place below 1 *)
NearOne(x) ==
    /\ x.sign = 1
    /\ \/ x.k = SignificandBits /\ 2 * MinSignificand - x.m <= 4
       \/ x.k = SignificandBits - 1 /\ x.m - MinSignificand <= 2

(* C29 as stated: calculateCosineSimilarity returns exactly 0 when a vector  *)
(* is missing, the lengths differ or a norm is 0; it is symmetric; and it    *)
(* returns 1 for a nonzero vector compared with itself or with a positive    *)
(* multiple of itself.                                                       *)
C29_CosineEdgeCases ==
    lastCall.op = "calculateCosineSimilarity" =>
        LET vecA == lastCall.input[1]
            vecB == lastCall.input[2]
        IN  /\ ZeroCase(vecA, vecB) => lastCall.output = FloatZero
            /\ lastCall.output = calculateCosineSimilarityNumber(vecB, vecA)
            /\ PositiveMultiple(vecA, vecB) => lastCall.output = FloatOne

(* C29 amended: calculateCosineSimilarity returns exactly 0 when a vector is *)
(* missing, the lengths differ or a norm is 0; it is symmetric; and for a    *)
(* nonzero vector compared with itself or with a positive multiple of itself *)
(* it returns 1 up to the rounding of the square roots, the product and the  *)
(* quotient, not always exactly 1.                                           *)
C29_CosineEdgeCasesRounded ==
    lastCall.op = "calculateCosineSimilarity" =>
        LET vecA == lastCall.input[1]
            vecB == lastCall.input[2]
        IN  /\ ZeroCase(vecA, vecB) => lastCall.output = FloatZero
            /\ lastCall.output = calculateCosineSimilarityNumber(vecB, vecA)
            /\ PositiveMultiple(vecA, vecB) => NearOne(lastCall.output)

(* a vector compared with its double, with a result next to 1 that is not 1 *)
C29_Witness ==
    /\ lastCall.op = "calculateCosineSimilarity"
    /\ lastCall.input = << <<1, 1>>, <<2, 2>> >>
    /\ lastCall.output # FloatOne
    /\ NearOne(lastCall.output)

SeasonOfMonth(month) ==
    CASE month \in {2, 3, 4} -> "spring"
      [] month \in {5, 6, 7} -> "summer"
      [] month \in {8, 9, 10} -> "fall"
      [] month \in {11, 0, 1} -> "winter"

(* C31: the season of a record is "spring" for the zero-based months 2..4,   *)
(* "summer" for 5..7, "fall" for 8..10 and "winter" for 11, 0 and 1; it is   *)
(* set when the record is created and the records of the store carry it.    *)
C31_SeasonDerivation ==
    /\ lastCall.op = "createMemoryEntry" =>
          lastCall.output.season = SeasonOfMonth(getMonth(lastCall.input))
    /\ \A e \in Range(store.memoryStore) : e.v.season = SeasonOfMonth(getMonth(e.v.timestamp))

(* a record created in the last hour of October *)
C31_Witness ==
    /\ lastCall.op = "createMemoryEntry"
    /\ getMonth(lastCall.input) = 10
    /\ getMonth(lastCall.input + 1) = 11
    /\ lastCall.output.season = "fall"

(* C32: after eviction removed the last member of a concept cluster, or the *)
(* last record of a category or of a domain, generateMemoryAnalytics reports *)
(* no group with zero members: totalClusters and conceptClusters count no    *)
(* zero-member cluster, topCategories and topDomains list no entry with      *)
(* count 0.                                                                  *)
C32_NoEmptyGroupReported ==
    (Quiescent /\ lastCall.op = "generateMemoryAnalytics") =>
        LET a == lastCall.analytics
        IN  /\ \A i \in 1..Len(a.topCategories) : a.topCategories[i].count > 0
            /\ \A i \in 1..Len(a.topDomains) : a.topDomains[i].count > 0
            /\ \A i \in 1..Len(a.conceptClusters) : a.conceptClusters[i].memberCount > 0
            /\ a.totalClusters = Len(a.conceptClusters)

(* C33: once overlapping storeMemory calls have all completed, every         *)
(* forward edge A -> B of kind K between two records of the store has its    *)
(* reverse edge B -> A of kind K-reverse: a reverse edge pushed onto a        *)
(* record's edge list by another call is not lost when the record's own      *)
(* discovery assigns its edge list.                                          *)
C33_ReciprocityUnderOverlap ==
    Quiescent =>
        \A e \in Range(store.relationshipGraph) :
            \A i \in 1..Len(e.v) :
                (e.v[i].type \in ForwardKinds /\ e.k \in LiveIds(store)
                    /\ e.v[i].targetId \in LiveIds(store)) =>
                    /\ MapHas(store.relationshipGraph, e.v[i].targetId)
                    /\ ReverseEdge(e.v[i], e.k) \in Range(MapGet(store.relationshipGraph, e.v[i].targetId))

(* C34: when the eviction of one storeMemory call removes a record whose own *)
(* call is still suspended, then after both calls completed no temporal     *)
(* bucket, category set, domain set, cluster or relationship-graph entry     *)
(* holds the id of a record that is absent from the canonical table.         *)
C34_NoResidueOfEvictedInsert ==
    Quiescent =>
        /\ \A g \in Granularities : IdsInSets(BucketsOf(store, g)) \subseteq LiveIds(store)
        /\ IdsInSets(store.semanticCategories) \subseteq LiveIds(store)
        /\ IdsInSets(store.domainClusters) \subseteq LiveIds(store)
        /\ \A i \in 1..Len(store.conceptClusters) :
              Range(store.conceptClusters[i].v.members) \subseteq LiveIds(store)
        /\ MapKeys(store.relationshipGraph) \subseteq LiveIds(store)

(* C35: after any sequence of storeMemory calls with evictions, and after   *)
(* importMemoryState, every id held in a set of embeddingBuckets is in the   *)
(* canonical table, so the buckets never hold more than maxMemories ids.     *)
C35_EmbeddingBucketsConsistent ==
    Quiescent =>
        /\ IdsInSets(store.embeddingBuckets) \subseteq LiveIds(store)
        /\ (lastCall.op = "storeMemory" =>
               Cardinality(IdsInSets(store.embeddingBuckets)) <= maxMemories)

(* C36: on a store that only storeMemory wrote to, the embedding index and   *)
(* the concept-cluster map are empty and there is no semantic-similar or     *)
(* visual-similar edge; every searchMemories call returns zero results and   *)
(* every storeMemory result reports clusters = 0.                            *)
C36_StoreOnlyHasNoEmbeddings ==
    /\ store.embeddingIndex = <<>>
    /\ store.conceptClusters = <<>>
    /\ \A e \in Range(store.relationshipGraph) :
          \A i \in 1..Len(e.v) :
              e.v[i].type \notin {"semantic-similar", "semantic-similar-reverse",
                                 "visual-similar", "visual-similar-reverse"}
    /\ (lastCall.op = "searchMemories" =>
           /\ lastCall.search.result.results = <<>>
           /\ lastCall.search.result.totalFound = 0)
    /\ (lastCall.op = "storeMemory" => lastCall.result.clusters = 0)

(* a search whose provider answered, with no filter and with a threshold    *)
(* that every similarity passes, over records whose orchestration results   *)
(* carried the embedding of the query                                        *)
C36_Witness ==
    /\ lastCall.op = "searchMemories" /\ lastCall.search.response.kind = "ok"
    /\ lastCall.search.result.queryEmbeddingGenerated
    /\ ~lastCall.search.result.error
    /\ lastCall.search.options.threshold = DefaultThreshold
    /\ lastCall.search.options.domainFilter = ""
    /\ ~lastCall.search.options.temporalFilter.on
    /\ Len(store.memoryStore) >= 2
    /\ Len(store.relationshipGraph) >= 2

(* C37: every entry scheduleAnalysis added to activeAnalysis is removed once *)
(* its analysis is over, whether it succeeded, failed or was cancelled: the  *)
(* map holds no analysis whose performAnalysis call has returned.            *)
C37_TrackingReleased ==
    \A id \in 1..Len(analyses) : analyses[id].pc = "done" => ~SetHas(activeAnalysis, id)

(* C38: while isActive is false, whichever message turned it off, the        *)
(* activeAnalysis map is empty, no step adds an entry to it, and no          *)
(* performAnalysis call enters captureScreenshot or calls the vision         *)
(* provider.                                                                 *)
C38_InactiveMeansIdle ==
    [][/\ (~isActive' => activeAnalysis' = <<>>)
       /\ (~isActive => \A id \in Range(activeAnalysis') : SetHas(activeAnalysis, id))
       /\ (~isActive =>
              \A id \in 1..Len(analyses) :
                  analyses'[id].pc \in {"capturing", "analyzing"} => analyses'[id].pc = analyses[id].pc)]_vars

(* C39: two calls of chrome.tabs.captureVisibleTab are at least 2000 ms      *)
(* apart, and a captureScreenshot call that reaches the rate-limit test less *)
(* than 2000 ms after an accepted capture is refused: it captures nothing,   *)
(* its analysis is out of activeAnalysis and no record was stored for it.    *)
C39_ScreenshotRateLimit ==
    LET accepted(i) == captureLog[i].outcome = "captureVisibleTab"
        elapsed(i, j) == captureLog[j].at - captureLog[i].at
    IN  /\ \A j \in 1..Len(captureLog) : \A i \in 1..(j - 1) :
              (accepted(i) /\ accepted(j)) => elapsed(i, j) >= 2000
        /\ \A j \in 1..Len(captureLog) :
              (\E i \in 1..(j - 1) : accepted(i) /\ elapsed(i, j) < 2000) =>
                  /\ captureLog[j].outcome = "rate-limited"
                  /\ ~SetHas(activeAnalysis, captureLog[j].analysis)
                  /\ analyses[captureLog[j].analysis].pc = "done"
                  /\ analyses[captureLog[j].analysis].memoryId = 0

(* a call refused one millisecond short of the interval after an accepted   *)
(* capture, while the extension is active                                    *)
C39_Witness ==
    /\ isActive
    /\ \E j \in 2..Len(captureLog) :
          /\ captureLog[j - 1].outcome = "captureVisibleTab"
          /\ captureLog[j].outcome = "rate-limited"
          /\ captureLog[j].at - captureLog[j - 1].at = 1999
          /\ analyses[captureLog[j - 1].analysis].pc \in {"captureVisibleTab", "analyzing", "saving"}

====
